---- MODULE Spec2Model ----
(***************************************************************************)
(* Model of the CSV validation program (src/src/validateCSVfile.py):       *)
(* CSVValidator.validate_all_files runs validate_file_structure and        *)
(* validate_file_content on every CSV file of the output directory.        *)
(* A file is the table csv.reader yields: a header row and data rows.      *)
(***************************************************************************)
EXTENDS Integers, Sequences, FiniteSets, TLC

(***************************************************************************)
(* Bounds of the model.                                                    *)
(***************************************************************************)
\* a data section is the concatenation of at most MaxSegs segments
MaxSegs == 2

(***************************************************************************)
(* Library functions the validator calls, modelled by what they do.        *)
(***************************************************************************)
RECURSIVE SortedSeq(_)
\* sorted(s) of a set of integers: the ascending list of its elements
SortedSeq(S) ==
    IF S = {} THEN <<>>
    ELSE LET m == CHOOSE x \in S : \A y \in S : x <= y
         IN  <<m>> \o SortedSeq(S \ {m})

MinOf(S) == CHOOSE x \in S : \A y \in S : x <= y
MaxOf(S) == CHOOSE x \in S : \A y \in S : x >= y

\* calendar.isleap as datetime uses it
IsLeap(y) == (y % 4 = 0) /\ ((y % 100 # 0) \/ (y % 400 = 0))

DaysInMonth(y, m) ==
    IF m = 2 THEN (IF IsLeap(y) THEN 29 ELSE 28)
    ELSE IF m \in {4, 6, 9, 11} THEN 30 ELSE 31

\* dates are <<year, month, day>>; date < date is lexicographic
DateLess(a, b) ==
    \/ a[1] < b[1]
    \/ a[1] = b[1] /\ a[2] < b[2]
    \/ a[1] = b[1] /\ a[2] = b[2] /\ a[3] < b[3]

\* date + timedelta(days=1)
NextDay(d) ==
    IF d[3] < DaysInMonth(d[1], d[2]) THEN <<d[1], d[2], d[3] + 1>>
    ELSE IF d[2] < 12 THEN <<d[1], d[2] + 1, 1>>
    ELSE <<d[1] + 1, 1, 1>>

RECURSIVE SortedDates(_)
\* sorted(all_dates)
SortedDates(S) ==
    IF S = {} THEN <<>>
    ELSE LET m == CHOOSE x \in S : \A y \in S : x = y \/ DateLess(x, y)
         IN  <<m>> \o SortedDates(S \ {m})

(***************************************************************************)
(* Column 1 of a row is a text.  A text of form "padded" or "unpadded"     *)
(* has the shape of the configured date format '%Y-%m-%d %H:%M:%S' with    *)
(* the fields y, m, d, h, mi (strptime accepts fields without leading      *)
(* zeros, so two different texts can denote the same timestamp); a text    *)
(* of form "junk" does not have that shape.                                *)
(***************************************************************************)
Text(form, date, h, mi) ==
    [form |-> form, y |-> date[1], m |-> date[2], d |-> date[3], h |-> h, mi |-> mi]

NoText == Text("none", <<0, 0, 0>>, 0, 0)
NoDate == <<0, 0, 0>>

\* datetime.strptime(text, date_format): ok = FALSE stands for ValueError
Strptime(text) ==
    IF /\ text.form \in {"padded", "unpadded"}
       /\ text.m \in 1..12
       /\ text.d \in 1..31
       /\ text.d <= DaysInMonth(text.y, text.m)
       /\ text.h \in 0..23
       /\ text.mi \in 0..59
    THEN [ok |-> TRUE,
          ts |-> [date |-> <<text.y, text.m, text.d>>, hour |-> text.h, minute |-> text.mi]]
    ELSE [ok |-> FALSE,
          ts |-> [date |-> NoDate, hour |-> 0, minute |-> 0]]

(***************************************************************************)
(* Column 2 of a row is a sequence of characters.                          *)
(***************************************************************************)
Digits == {"0", "1", "2", "3", "4", "5", "6", "7", "8", "9"}

RECURSIVE StripLeft(_, _)
StripLeft(s, c) ==
    IF Len(s) > 0 /\ s[1] = c THEN StripLeft(Tail(s), c) ELSE s

RECURSIVE StripRight(_, _)
StripRight(s, c) ==
    IF Len(s) > 0 /\ s[Len(s)] = c THEN StripRight(SubSeq(s, 1, Len(s) - 1), c) ELSE s

\* str.strip(c): every leading and trailing c is removed
Strip(s, c) == StripRight(StripLeft(s, c), c)

\* str.replace(a, b) for one-character a and b
Replace(s, a, b) == [i \in 1..Len(s) |-> IF s[i] = a THEN b ELSE s[i]]

\* float(s) succeeds: optional sign, digits with at most one period
FloatParses(s) ==
    LET body == IF Len(s) > 0 /\ s[1] \in {"+", "-"} THEN Tail(s) ELSE s
    IN  /\ \A i \in 1..Len(body) : body[i] \in Digits \cup {"."}
        /\ Cardinality({i \in 1..Len(body) : body[i] = "."}) <= 1
        /\ \E i \in 1..Len(body) : body[i] \in Digits

(***************************************************************************)
(* Error messages.  Every message is a record of the same shape; the       *)
(* fields a message does not use keep their default.                       *)
(***************************************************************************)
BaseErr ==
    [kind |-> "", row |-> 0, text |-> NoText, first |-> 0, date |-> NoDate,
     date2 |-> NoDate, hours |-> <<>>, lo |-> 0, hi |-> 0, span |-> FALSE,
     n |-> 0, name |-> ""]

\* "Header has insufficient columns. Expected at least {n} columns."
ErrHeaderShort(n) == [BaseErr EXCEPT !.kind = "header_insufficient", !.n = n]
\* "Required header '{name}' not found at position {pos}"
ErrHeaderMismatch(name, pos) ==
    [BaseErr EXCEPT !.kind = "header_mismatch", !.name = name, !.n = pos]
\* "Row {row} has insufficient columns. Expected at least {n} columns."
ErrRowShort(row, n) == [BaseErr EXCEPT !.kind = "row_insufficient", !.row = row, !.n = n]
\* "Error reading file: ..."
ErrReadingFile == [BaseErr EXCEPT !.kind = "error_reading_file"]
\* "Row {row}: Duplicate timestamp found: {text} (also found at row {first})"
ErrDuplicate(row, text, first) ==
    [BaseErr EXCEPT !.kind = "duplicate", !.row = row, !.text = text, !.first = first]
\* "Row {row}: Invalid power value in column 2"
ErrPower(row) == [BaseErr EXCEPT !.kind = "invalid_power", !.row = row]
\* "Row {row}: Invalid datetime format in column 1"
ErrDatetime(row) == [BaseErr EXCEPT !.kind = "invalid_datetime", !.row = row]
\* "File contains only a header row. No data rows found."
ErrOnlyHeader == [BaseErr EXCEPT !.kind = "only_header"]
\* "Missing hours {hours} for date {date} (between rows {lo} and {hi})"
ErrMissingSpan(hours, date, lo, hi) ==
    [BaseErr EXCEPT !.kind = "missing_hours", !.hours = hours, !.date = date,
                    !.lo = lo, !.hi = hi, !.span = TRUE]
\* "Missing hours {hours} for date {date}"
ErrMissing(hours, date) ==
    [BaseErr EXCEPT !.kind = "missing_hours", !.hours = hours, !.date = date]
\* "Gap in dates between {date} and {date2} (between rows {lo} and {hi})"
ErrGap(date, date2, lo, hi) ==
    [BaseErr EXCEPT !.kind = "gap", !.date = date, !.date2 = date2,
                    !.lo = lo, !.hi = hi, !.span = TRUE]
\* "Error validating content: ..."
ErrValidatingContent == [BaseErr EXCEPT !.kind = "error_validating_content"]

(***************************************************************************)
(* Configuration (config.yaml, csv section) as the tests set it up.        *)
(***************************************************************************)
\* config['csv']['header']
required_headers == <<"Datetime", "Power">>

\* the configurations: config['csv']['decimal_separator'] is "," or "."
Configs == {[decimal_separator |-> ","], [decimal_separator |-> "."]}

(***************************************************************************)
(* The files.  A file is what csv.reader yields for it: the header row     *)
(* hdr and the data rows data.  kind tells how reading ends: "ok" at the   *)
(* end of the file, "trunc" with an exception raised after the last row    *)
(* of data (an I/O or decoding failure), "nohdr" with an exception raised  *)
(* before the header is returned (the file cannot be opened, or is empty   *)
(* so that next(reader) raises StopIteration).                             *)
(***************************************************************************)
GoodPower == <<"1", ",", "5">>

D1 == <<2024, 2, 28>>
D2 == <<2024, 2, 29>>
D3 == <<2024, 3, 1>>
D4 == <<2024, 3, 3>>
BlockDates == {D1, D2, D3}
BlockRanges == {<<0, 23>>, <<0, 2>>, <<4, 4>>}

\* the rows of one date for the hours lo..hi, in ascending order
Block(date, lo, hi) ==
    [k \in 1..(hi - lo + 1) |-> <<Text("padded", date, lo + k - 1, 0), GoodPower>>]

\* single rows with one peculiarity each
SpecialRows ==
    { <<Text("junk", NoDate, 0, 0), GoodPower>>,                        \* 'invalid-date'
      <<Text("padded", <<2024, 2, 30>>, 0, 0), GoodPower>>,             \* no such day
      <<Text("padded", D1, 24, 0), <<"x">>>>,                           \* no such hour
      <<Text("padded", D1, 3, 0), <<"x">>>>,                            \* power not numeric
      <<Text("padded", D1, 3, 0)>>,                                     \* no column 2
      <<>>,                                                             \* blank row
      <<Text("unpadded", D1, 0, 0), <<"\"", "1", ",", "5", "\"">>>>,    \* quoted power
      <<Text("padded", D1, 3, 30), <<"1", ".", "5">>>>,                 \* half past
      <<Text("padded", D2, 0, 0), <<"-", "2">>, <<>>, <<>>>>,           \* trailer columns
      <<Text("padded", D3, 0, 0), <<"1", ",", "2", ",", "5">>>> }       \* two separators

\* one timestamp at three rows, written in two ways
TripleRun ==
    << <<Text("padded", D4, 5, 0), GoodPower>>,
       <<Text("unpadded", D4, 5, 0), GoodPower>>,
       <<Text("padded", D4, 5, 0), <<"x">>>> >>

\* three dates, one row each, not in calendar order
Scattered ==
    << <<Text("padded", D4, 7, 0), GoodPower>>,
       <<Text("padded", D1, 7, 0), GoodPower>>,
       <<Text("padded", D3, 7, 0), GoodPower>> >>

\* a duplicate, an unparsable date with a non-numeric power value, and a
\* non-numeric power value on an incomplete day
MultipleIssues ==
    << <<Text("padded", D3, 0, 0), GoodPower>>,
       <<Text("padded", D3, 0, 0), GoodPower>>,
       <<Text("junk", NoDate, 0, 0), <<"x">>>>,
       <<Text("padded", D3, 3, 0), <<"x">>>> >>

Segments ==
    {Block(d, r[1], r[2]) : d \in BlockDates, r \in BlockRanges}
        \cup {<<row>> : row \in SpecialRows}
        \cup {TripleRun, Scattered, MultipleIssues}

RECURSIVE DataOf(_)
\* the data sections made of at most n segments
DataOf(n) ==
    IF n = 0 THEN {<<>>}
    ELSE LET shorter == DataOf(n - 1)
         IN  shorter \cup {d \o s : d \in shorter, s \in Segments}

Headers ==
    { <<"Datetime", "Power">>, <<"Datetime", "Power", "", "">>, <<"Datetime">>,
      <<"Power", "Datetime">>, <<"Power">>, <<"X", "Power", "Datetime">>, <<>> }

File(hdr, data, kind) == [hdr |-> hdr, data |-> data, kind |-> kind]

\* short data sections, combined with every header and every way reading ends
SmallData == {d \in DataOf(MaxSegs) : Len(d) <= 2}

Files ==
    {File(required_headers, d, "ok") : d \in DataOf(MaxSegs)}
        \cup {File(h, d, k) : h \in Headers, d \in SmallData, k \in {"ok", "trunc"}}
        \cup {File(<<>>, <<>>, "nohdr")}

(***************************************************************************)
(* validate_file_structure                                                 *)
(***************************************************************************)
\* the value both validators return: (len(errors) == 0, errors)
ReturnValue(errs) == [is_valid |-> Len(errs) = 0, errors |-> errs]

RECURSIVE HeaderMismatchesZeroBased(_, _, _)
\* HeaderMismatches naming the 0-based position i instead of i+1
HeaderMismatchesZeroBased(header, required, i) ==
    IF i > Len(required) THEN <<>>
    ELSE (IF header[i] # required[i] THEN <<ErrHeaderMismatch(required[i], i - 1)>> ELSE <<>>)
             \o HeaderMismatchesZeroBased(header, required, i + 1)

RECURSIVE HeaderMismatches(_, _, _)
\* for i, required_header in enumerate(required): header[i] != required_header
HeaderMismatches(header, required, i) ==
    IF i > Len(required) THEN <<>>
    ELSE (IF header[i] # required[i] THEN <<ErrHeaderMismatch(required[i], i)>> ELSE <<>>)
             \o HeaderMismatches(header, required, i + 1)

\* the errors the header yields
HeaderErrors(header, required) ==
    IF Len(header) < Len(required) THEN <<ErrHeaderShort(Len(required))>>
    ELSE HeaderMismatches(header, required, 1)

RECURSIVE RowColumnErrorsStart1(_, _, _)
\* RowColumnErrors numbering the rows from the first data row (start=1)
RowColumnErrorsStart1(data, n, k) ==
    IF k > Len(data) THEN <<>>
    ELSE (IF Len(data[k]) < n THEN <<ErrRowShort(k, n)>> ELSE <<>>)
             \o RowColumnErrorsStart1(data, n, k + 1)

RECURSIVE RowColumnErrorsSkipBlank(_, _, _)
\* RowColumnErrors passing over blank rows as the content check does
RowColumnErrorsSkipBlank(data, n, k) ==
    IF k > Len(data) THEN <<>>
    ELSE (IF Len(data[k]) > 0 /\ Len(data[k]) < n THEN <<ErrRowShort(k + 1, n)>> ELSE <<>>)
             \o RowColumnErrorsSkipBlank(data, n, k + 1)

RECURSIVE RowColumnErrors(_, _, _)
\* for row_num, row in enumerate(reader, start=2): len(row) < expected_min_columns
RowColumnErrors(data, n, k) ==
    IF k > Len(data) THEN <<>>
    ELSE (IF Len(data[k]) < n THEN <<ErrRowShort(k + 1, n)>> ELSE <<>>)
             \o RowColumnErrors(data, n, k + 1)

\* validate_file_structure without its except clause: a failure to read adds
\* no message
validate_file_structureNoExcept(file) ==
    ReturnValue(
        IF file.kind = "nohdr" THEN <<>>
        ELSE HeaderErrors(file.hdr, required_headers)
                 \o RowColumnErrors(file.data, Len(required_headers), 1))

\* validate_file_structure(file): an exception at any point appends one
\* "Error reading file" message to what was collected before it
validate_file_structure(file) ==
    ReturnValue(
        IF file.kind = "nohdr" THEN <<ErrReadingFile>>
        ELSE HeaderErrors(file.hdr, required_headers)
                 \o RowColumnErrors(file.data, Len(required_headers), 1)
                 \o (IF file.kind = "trunc" THEN <<ErrReadingFile>> ELSE <<>>))

(***************************************************************************)
(* validate_file_content: the pieces of one iteration of the row loop and  *)
(* of the checks after the loop.  hours_by_date is a dict in insertion     *)
(* order: a sequence of [date, hours]; timestamp_line_numbers is a dict    *)
(* from timestamps to their lists of row numbers.                          *)
(***************************************************************************)
HasDate(hbd, date) == \E k \in 1..Len(hbd) : hbd[k].date = date

\* hours_by_date[date].add(hour), the date entered at its first occurrence
AddHour(hbd, date, hour) ==
    IF HasDate(hbd, date)
    THEN [k \in 1..Len(hbd) |->
             IF hbd[k].date = date
             THEN [date |-> date, hours |-> hbd[k].hours \cup {hour}]
             ELSE hbd[k]]
    ELSE Append(hbd, [date |-> date, hours |-> {hour}])

\* AddLine with the row number put at the front of the list
AddLineAtFront(tln, ts, row_num) ==
    IF ts \in DOMAIN tln
    THEN [tln EXCEPT ![ts] = <<row_num>> \o @]
    ELSE [t \in DOMAIN tln \cup {ts} |-> IF t = ts THEN <<row_num>> ELSE tln[t]]

\* timestamp_line_numbers[timestamp].append(row_num), or a new list
AddLine(tln, ts, row_num) ==
    IF ts \in DOMAIN tln
    THEN [tln EXCEPT ![ts] = Append(@, row_num)]
    ELSE [t \in DOMAIN tln \cup {ts} |-> IF t = ts THEN <<row_num>> ELSE tln[t]]

\* DuplicateErrors citing the previous occurrence instead of the first
DuplicateErrorsPrevious(tln, ts, row_num, raw) ==
    IF Len(tln[ts]) > 1 THEN <<ErrDuplicate(row_num, raw, tln[ts][Len(tln[ts]) - 1])>>
    ELSE <<>>

\* the duplicate check, made after the row was entered into tln
DuplicateErrors(tln, ts, row_num, raw) ==
    IF Len(tln[ts]) > 1 THEN <<ErrDuplicate(row_num, raw, tln[ts][1])>> ELSE <<>>

\* PowerInvalid without the strip of the double quotes
PowerInvalidNoStrip(row, cfg) ==
    \/ Len(row) < 2
    \/ ~FloatParses(Replace(row[2], cfg.decimal_separator, "."))

\* float(row[1].strip('"').replace(decimal_separator, '.')) raises
\* ValueError, or row[1] raises IndexError
PowerInvalid(row, cfg) ==
    \/ Len(row) < 2
    \/ ~FloatParses(Replace(Strip(row[2], "\""), cfg.decimal_separator, "."))

PowerErrors(row, row_num, cfg) ==
    IF PowerInvalid(row, cfg) THEN <<ErrPower(row_num)>> ELSE <<>>

\* DatetimeErrors with the power check made for the unparsable row too
DatetimeErrorsAndPower(row, row_num, cfg) ==
    <<ErrDatetime(row_num)>> \o PowerErrors(row, row_num, cfg)

\* except ValueError: what a row yields whose column 1 does not parse
DatetimeErrors(row, row_num, cfg) == <<ErrDatetime(row_num)>>

\* OnlyHeaderErrors with the flag inverted
OnlyHeaderErrorsInverted(has) == IF has THEN <<ErrOnlyHeader>> ELSE <<>>

\* if not has_data_rows
OnlyHeaderErrors(has) == IF has THEN <<>> ELSE <<ErrOnlyHeader>>

\* the timestamps of tln that fall on the date
TimestampsOn(tln, date) == {ts \in DOMAIN tln : ts.date = date}

\* MissingHoursOf with the expected hours taken as 0..24
MissingHoursOfRange25(entry, tln) ==
    LET missing_hours == (0..24) \ entry.hours
        date_timestamps == TimestampsOn(tln, entry.date)
    IN  IF missing_hours = {} THEN <<>>
        ELSE <<ErrMissingSpan(SortedSeq(missing_hours), entry.date,
                              MinOf({tln[ts][1] : ts \in date_timestamps}),
                              MaxOf({tln[ts][Len(tln[ts])] : ts \in date_timestamps}))>>

\* MissingHoursOf with the expected hours taken as 1..23
MissingHoursOfFrom1(entry, tln) ==
    LET missing_hours == (1..23) \ entry.hours
        date_timestamps == TimestampsOn(tln, entry.date)
    IN  IF missing_hours = {} THEN <<>>
        ELSE <<ErrMissingSpan(SortedSeq(missing_hours), entry.date,
                              MinOf({tln[ts][1] : ts \in date_timestamps}),
                              MaxOf({tln[ts][Len(tln[ts])] : ts \in date_timestamps}))>>

\* MissingHoursOf with the span ending at the largest first occurrence
MissingHoursOfFirstRows(entry, tln) ==
    LET missing_hours == (0..23) \ entry.hours
        date_timestamps == TimestampsOn(tln, entry.date)
    IN  IF missing_hours = {} THEN <<>>
        ELSE <<ErrMissingSpan(SortedSeq(missing_hours), entry.date,
                              MinOf({tln[ts][1] : ts \in date_timestamps}),
                              MaxOf({tln[ts][1] : ts \in date_timestamps}))>>

\* missing hours of one entry of hours_by_date
MissingHoursOf(entry, tln) ==
    LET missing_hours == (0..23) \ entry.hours
        date_timestamps == TimestampsOn(tln, entry.date)
    IN  IF missing_hours = {} THEN <<>>
        ELSE IF date_timestamps # {}
        THEN <<ErrMissingSpan(SortedSeq(missing_hours), entry.date,
                              MinOf({tln[ts][1] : ts \in date_timestamps}),
                              MaxOf({tln[ts][Len(tln[ts])] : ts \in date_timestamps}))>>
        ELSE <<ErrMissing(SortedSeq(missing_hours), entry.date)>>

RECURSIVE MissingHoursErrorsFirstOnly(_, _, _)
\* MissingHoursErrors ending at the first date that has missing hours
MissingHoursErrorsFirstOnly(hbd, tln, k) ==
    IF k > Len(hbd) THEN <<>>
    ELSE IF MissingHoursOf(hbd[k], tln) # <<>> THEN MissingHoursOf(hbd[k], tln)
    ELSE MissingHoursErrorsFirstOnly(hbd, tln, k + 1)

RECURSIVE MissingHoursErrors(_, _, _)
\* for date, hours in hours_by_date.items()
MissingHoursErrors(hbd, tln, k) ==
    IF k > Len(hbd) THEN <<>>
    ELSE MissingHoursOf(hbd[k], tln) \o MissingHoursErrors(hbd, tln, k + 1)

RECURSIVE GapsFromFirstRows(_, _, _)
\* GapsFrom with the span beginning at the first row of the earlier date
GapsFromFirstRows(sorted_dates, tln, i) ==
    IF i >= Len(sorted_dates) THEN <<>>
    ELSE (IF sorted_dates[i + 1] # NextDay(sorted_dates[i])
          THEN <<ErrGap(sorted_dates[i], sorted_dates[i + 1],
                        MinOf({tln[ts][1] : ts \in TimestampsOn(tln, sorted_dates[i])}),
                        MinOf({tln[ts][1] : ts \in TimestampsOn(tln, sorted_dates[i + 1])}))>>
          ELSE <<>>)
             \o GapsFromFirstRows(sorted_dates, tln, i + 1)

RECURSIVE GapsFrom(_, _, _)
\* for i in range(len(sorted_dates) - 1)
GapsFrom(sorted_dates, tln, i) ==
    IF i >= Len(sorted_dates) THEN <<>>
    ELSE (IF sorted_dates[i + 1] # NextDay(sorted_dates[i])
          THEN <<ErrGap(sorted_dates[i], sorted_dates[i + 1],
                        MaxOf({tln[ts][Len(tln[ts])] : ts \in TimestampsOn(tln, sorted_dates[i])}),
                        MinOf({tln[ts][1] : ts \in TimestampsOn(tln, sorted_dates[i + 1])}))>>
          ELSE <<>>)
             \o GapsFrom(sorted_dates, tln, i + 1)

RECURSIVE DatesByFirstRow(_, _)
\* the dates in the order of their first rows in the file
DatesByFirstRow(S, tln) ==
    IF S = {} THEN <<>>
    ELSE LET first(d) == MinOf({tln[ts][1] : ts \in TimestampsOn(tln, d)})
             m == CHOOSE x \in S : \A y \in S : first(x) <= first(y)
         IN  <<m>> \o DatesByFirstRow(S \ {m}, tln)

\* GapErrors walking the dates in file order, without sorted()
GapErrorsFileOrder(seen, tln) ==
    LET all_dates == {ts.date : ts \in seen}
    IN  IF Cardinality(all_dates) > 1 THEN GapsFrom(DatesByFirstRow(all_dates, tln), tln, 1)
        ELSE <<>>

\* the check for gaps between dates
GapErrors(seen, tln) ==
    LET all_dates == {ts.date : ts \in seen}
    IN  IF Cardinality(all_dates) > 1 THEN GapsFrom(SortedDates(all_dates), tln, 1)
        ELSE <<>>

\* CombineResults with the content errors put first
CombineResultsContentFirst(structure, content) ==
    [is_valid |-> structure.is_valid /\ content.is_valid,
     errors |-> content.errors \o structure.errors]

\* CombineResults with "or" in place of "and"
CombineResultsOr(structure, content) ==
    [is_valid |-> structure.is_valid \/ content.is_valid,
     errors |-> structure.errors \o content.errors]

\* validate_all_files: the entry of results for one file
CombineResults(structure, content) ==
    [is_valid |-> structure.is_valid /\ content.is_valid,
     errors |-> structure.errors \o content.errors]

(***************************************************************************)
(* The output directories: get_csv_files() lists no file, one file, or     *)
(* two files.                                                              *)
(***************************************************************************)
PairFiles ==
    { File(required_headers, <<>>, "ok"),
      File(required_headers, Block(D1, 0, 2), "ok"),
      File(<<"Datetime">>, Block(D1, 0, 2) \o Block(D1, 0, 2), "trunc"),
      File(<<>>, <<>>, "nohdr") }

Dirs ==
    {<<>>} \cup {<<f>> : f \in Files} \cup {<<f, g>> : f \in PairFiles, g \in PairFiles}

\* the decimal separator "." is combined with the short files
SmallDirs == {<<f>> : f \in {g \in Files : Len(g.data) <= 2}}

Inputs ==
    {<<[decimal_separator |-> ","], dir>> : dir \in Dirs}
        \cup {<<[decimal_separator |-> "."], dir>> : dir \in SmallDirs}

(***************************************************************************)
(* State.                                                                  *)
(***************************************************************************)
VARIABLES
    config,                  \* self.config
    files,                   \* get_csv_files(): the files to validate, in order
    pc,                      \* where validate_all_files stands
    fi,                      \* index in files of the file being validated
    results,                 \* results of validate_all_files, one entry per file
    structure_result,        \* what validate_file_structure returned for files[fi]
    content_result,          \* what validate_file_content returned for files[fi]
    row_idx,                 \* validate_file_content: index in data of the next row
    errors,                  \* validate_file_content: errors
    seen_timestamps,         \* validate_file_content: seen_timestamps
    has_data_rows,           \* validate_file_content: has_data_rows
    hours_by_date,           \* validate_file_content: hours_by_date
    timestamp_line_numbers   \* validate_file_content: timestamp_line_numbers

\* getTibberData.py: the call under way and its environment
VARIABLES
    tpc,                     \* where the call of a getTibberData function stands
    system_tz,               \* the time zone of the machine (TZ)
    now,                     \* datetime.now()
    date_range,              \* parse_date_range: date_range
    start_date,              \* start_date (parse_date_range result, generate_month_range input)
    end_date,                \* end_date
    current_date,            \* generate_month_range: current_date
    month_range,             \* generate_month_range: month_range
    python_version,          \* the Python that runs the module
    arg,                     \* the string a function was called with
    date_str,                \* encode_date_to_base64: date_str when the call ends
    ret,                     \* what the call returned, or that it raised
    month_idx,               \* process_date_range: position of month in months
    encoded_date,            \* process_date_range: encoded_date
    encode_calls,            \* the months encode_date_to_base64 was called with, in order
    fetch_calls              \* the calls of fetch_and_save_consumption, in order

process == <<month_idx, encoded_date, encode_calls, fetch_calls>>

tibber ==
    <<tpc, system_tz, python_version, now, date_range, start_date, end_date,
      current_date, month_range, arg, date_str, ret, process>>

validator ==
    <<config, files, pc, fi, results, structure_result, content_result, row_idx,
      errors, seen_timestamps, has_data_rows, hours_by_date, timestamp_line_numbers>>

vars == <<validator, tibber>>

locals == <<row_idx, errors, seen_timestamps, has_data_rows, hours_by_date,
            timestamp_line_numbers>>

NoResult == ReturnValue(<<>>)
EmptyDict == [t \in {} |-> <<>>]

\* the three tracking structures of validate_file_content
Locals(seen, hbd, tln) ==
    [seen_timestamps |-> seen, hours_by_date |-> hbd, timestamp_line_numbers |-> tln]

\* tracking structures kept from one call to the next
KeptLocals(previous) == previous

\* seen_timestamps = set(); hours_by_date = {}; timestamp_line_numbers = {}:
\* each call creates its own, whatever an earlier call left behind
NewLocals(previous) == Locals({}, <<>>, EmptyDict)

\* a datetime: naive, to the minute
Datetime(date, hour, minute) == [date |-> date, hour |-> hour, minute |-> minute]
NoDatetime == Datetime(NoDate, 0, 0)
\* the outcome of a call: a string, a number, or an exception raised
Returned(str, n) == [raised |-> FALSE, str |-> str, n |-> n]
Raised == [raised |-> TRUE, str |-> <<>>, n |-> 0]
NoRet == Returned(<<>>, 0)

\* no getTibberData function is called while the validator runs
ProcessIdle ==
    /\ month_idx = 0
    /\ encoded_date = <<>>
    /\ encode_calls = <<>>
    /\ fetch_calls = <<>>

TibberIdle ==
    /\ ProcessIdle
    /\ tpc = "idle"
    /\ system_tz = "UTC"
    /\ python_version = "3.9"
    /\ arg = <<>>
    /\ now = NoDatetime
    /\ date_range = <<>>
    /\ start_date = NoDatetime
    /\ end_date = NoDatetime
    /\ current_date = NoDatetime
    /\ month_range = <<>>
    /\ date_str = <<>>
    /\ ret = NoRet

Init ==
    /\ \E in \in Inputs : config = in[1] /\ files = in[2]
    /\ pc = "start"
    /\ fi = 0
    /\ results = <<>>
    /\ structure_result = NoResult
    /\ content_result = NoResult
    /\ row_idx = 0
    /\ errors = <<>>
    /\ seen_timestamps = {}
    /\ has_data_rows = FALSE
    /\ hours_by_date = <<>>
    /\ timestamp_line_numbers = EmptyDict
    /\ TibberIdle

(***************************************************************************)
(* validate_all_files                                                      *)
(***************************************************************************)
\* results = {}; the loop over get_csv_files() begins
StartValidateAll ==
    /\ UNCHANGED tibber
    /\ pc = "start"
    /\ results' = <<>>
    /\ IF Len(files) = 0 THEN pc' = "done" /\ fi' = fi
       ELSE pc' = "structure" /\ fi' = 1
    /\ UNCHANGED <<config, files, structure_result, content_result, locals>>

\* structure_valid, structure_errors = self.validate_file_structure(file_path)
ValidateStructure ==
    /\ UNCHANGED tibber
    /\ pc = "structure"
    /\ structure_result' = validate_file_structure(files[fi])
    /\ pc' = "content"
    /\ UNCHANGED <<config, files, fi, results, content_result, locals>>

\* validate_file_content: the file opens, the header is skipped, the locals
\* of the call are created
ContentOpen ==
    /\ UNCHANGED tibber
    /\ pc = "content"
    /\ files[fi].kind # "nohdr"
    /\ row_idx' = 1
    /\ errors' = <<>>
    /\ LET created == NewLocals(Locals(seen_timestamps, hours_by_date,
                                       timestamp_line_numbers))
       IN  /\ seen_timestamps' = created.seen_timestamps
           /\ hours_by_date' = created.hours_by_date
           /\ timestamp_line_numbers' = created.timestamp_line_numbers
    /\ has_data_rows' = FALSE
    /\ pc' = "scan"
    /\ UNCHANGED <<config, files, fi, results, structure_result, content_result>>

\* validate_file_content: open() or next(reader) raises; the except clause
\* appends the message and the function returns
ContentOpenFails ==
    /\ UNCHANGED tibber
    /\ pc = "content"
    /\ files[fi].kind = "nohdr"
    /\ errors' = <<ErrValidatingContent>>
    /\ content_result' = ReturnValue(errors')
    /\ row_idx' = 0
    /\ seen_timestamps' = {}
    /\ has_data_rows' = FALSE
    /\ hours_by_date' = <<>>
    /\ timestamp_line_numbers' = EmptyDict
    /\ pc' = "combine"
    /\ UNCHANGED <<config, files, fi, results, structure_result>>

\* validate_file_content: one iteration of the loop over the rows
ScanRow ==
    /\ UNCHANGED tibber
    /\ pc = "scan"
    /\ row_idx <= Len(files[fi].data)
    /\ LET row == files[fi].data[row_idx]
           row_num == row_idx + 1
       IN  IF Len(row) = 0
           THEN UNCHANGED <<errors, seen_timestamps, has_data_rows, hours_by_date,
                            timestamp_line_numbers>>
           ELSE LET parsed == Strptime(row[1])
                    timestamp == parsed.ts
                    tln == AddLine(timestamp_line_numbers, timestamp, row_num)
                IN  /\ has_data_rows' = TRUE
                    /\ IF parsed.ok
                       THEN /\ seen_timestamps' = seen_timestamps \cup {timestamp}
                            /\ hours_by_date' =
                                   AddHour(hours_by_date, timestamp.date, timestamp.hour)
                            /\ timestamp_line_numbers' = tln
                            /\ errors' = errors
                                   \o DuplicateErrors(tln, timestamp, row_num, row[1])
                                   \o PowerErrors(row, row_num, config)
                       ELSE /\ errors' = errors \o DatetimeErrors(row, row_num, config)
                            /\ UNCHANGED <<seen_timestamps, hours_by_date,
                                           timestamp_line_numbers>>
    /\ row_idx' = row_idx + 1
    /\ UNCHANGED <<config, files, pc, fi, results, structure_result, content_result>>

\* validate_file_content: reading the next row raises; the except clause
\* appends the message to the errors collected so far
ScanReadFails ==
    /\ UNCHANGED tibber
    /\ pc = "scan"
    /\ row_idx > Len(files[fi].data)
    /\ files[fi].kind = "trunc"
    /\ errors' = Append(errors, ErrValidatingContent)
    /\ content_result' = ReturnValue(errors')
    /\ pc' = "combine"
    /\ UNCHANGED <<config, files, fi, results, structure_result, row_idx,
                   seen_timestamps, has_data_rows, hours_by_date, timestamp_line_numbers>>

\* validate_file_content: the rows are exhausted; the checks after the loop
AfterScan ==
    /\ UNCHANGED tibber
    /\ pc = "scan"
    /\ row_idx > Len(files[fi].data)
    /\ files[fi].kind = "ok"
    /\ errors' = errors
           \o OnlyHeaderErrors(has_data_rows)
           \o MissingHoursErrors(hours_by_date, timestamp_line_numbers, 1)
           \o GapErrors(seen_timestamps, timestamp_line_numbers)
    /\ content_result' = ReturnValue(errors')
    /\ pc' = "combine"
    /\ UNCHANGED <<config, files, fi, results, structure_result, row_idx,
                   seen_timestamps, has_data_rows, hours_by_date, timestamp_line_numbers>>

\* results[file_path] = (structure_valid and content_valid, structure_errors + content_errors)
Combine ==
    /\ UNCHANGED tibber
    /\ pc = "combine"
    /\ results' = Append(results, CombineResults(structure_result, content_result))
    /\ IF fi < Len(files) THEN pc' = "structure" /\ fi' = fi + 1
       ELSE pc' = "done" /\ fi' = fi
    /\ UNCHANGED <<config, files, structure_result, content_result, locals>>

Next ==
    \/ StartValidateAll
    \/ ValidateStructure
    \/ ContentOpen
    \/ ContentOpenFails
    \/ ScanRow
    \/ ScanReadFails
    \/ AfterScan
    \/ Combine

Spec == Init /\ [][Next]_vars

(***************************************************************************)
(* What a file holds, read off the file itself.                            *)
(***************************************************************************)
CurFile == files[fi]

\* validate_file_content has returned for the current file
ContentReturned == pc = "combine"
\* ... after a complete scan (no exception)
ScanCompleted == pc = "combine" /\ CurFile.kind = "ok"
\* validate_file_structure has returned for the current file
StructureReturned == pc = "content"

NonBlankRows(f) == {k \in 1..Len(f.data) : Len(f.data[k]) > 0}
ParsedRows(f) == {k \in NonBlankRows(f) : Strptime(f.data[k][1]).ok}
TsOfRow(f, k) == Strptime(f.data[k][1]).ts
\* the timestamps of the rows whose column 1 parses, by row index
RowTimestamps(f) == [k \in ParsedRows(f) |-> TsOfRow(f, k)]
\* for such a function rt: the dates, the hours of a date, the rows at which
\* the timestamp of row k occurs
ObservedDates(rt) == {rt[k].date : k \in DOMAIN rt}
ObservedHours(rt, d) == {rt[k].hour : k \in {j \in DOMAIN rt : rt[j].date = d}}
Occurrences(rt, k) == {j \in DOMAIN rt : rt[j] = rt[k]}

ErrorsOfKind(errs, kind) == SelectSeq(errs, LAMBDA e : e.kind = kind)
Range(seq) == {seq[i] : i \in 1..Len(seq)}

(***************************************************************************)
(* C1: each validator returns is_valid = TRUE exactly when the error list  *)
(* it returns is empty, and validate_all_files reports a file as valid     *)
(* exactly when the concatenation of its structural and content error      *)
(* lists is empty, i.e. when both checks are valid.                        *)
(***************************************************************************)
C1_ValidIffNoErrors ==
    /\ StructureReturned =>
           structure_result.is_valid = (structure_result.errors = <<>>)
    /\ ContentReturned =>
           content_result.is_valid = (content_result.errors = <<>>)
    /\ (pc \in {"structure", "done"} /\ Len(results) > 0) =>
           LET r == results[Len(results)]
           IN  /\ r.errors = structure_result.errors \o content_result.errors
               /\ r.is_valid = (r.errors = <<>>)
               /\ r.is_valid = (structure_result.is_valid /\ content_result.is_valid)
    /\ \A k \in 1..Len(results) : results[k].is_valid = (results[k].errors = <<>>)

\* a file of 24 rows was reported valid
C1_Witness ==
    /\ pc = "done"
    /\ Len(results) = 1
    /\ results[1].is_valid
    /\ Len(files[1].data) = 24

(***************************************************************************)
(* C2: validate_file_content returns (true, []) for every table with at    *)
(* least one data row in which every data row has a parsable timestamp     *)
(* and a numeric power value, no timestamp occurs twice, every observed    *)
(* date has all 24 hours and the observed dates are consecutive days.      *)
(***************************************************************************)
\* a decimal number written with the separator sep, possibly in double quotes
IsDecimalNumber(chars, sep) ==
    LET quoted == Len(chars) >= 2 /\ chars[1] = "\"" /\ chars[Len(chars)] = "\""
        inner == IF quoted THEN SubSeq(chars, 2, Len(chars) - 1) ELSE chars
        body == IF Len(inner) > 0 /\ inner[1] \in {"+", "-"} THEN Tail(inner) ELSE inner
        seps == {i \in 1..Len(body) : body[i] = sep}
    IN  /\ Len(body) > 0
        /\ \A i \in 1..Len(body) : body[i] \in Digits \cup {sep}
        /\ Cardinality(seps) <= 1
        /\ \A i \in seps : i > 1 /\ i < Len(body)

\* the days from 1 January of year 1 to the date, counted month by month
RECURSIVE DaysBeforeMonth(_, _)
DaysBeforeMonth(y, m) == IF m = 1 THEN 0 ELSE DaysBeforeMonth(y, m - 1) + DaysInMonth(y, m - 1)
DayNumber(d) ==
    LET y == d[1] - 1
    IN  y * 365 + (y \div 4) - (y \div 100) + (y \div 400) + DaysBeforeMonth(d[1], d[2]) + d[3]

CleanTable(f, cfg) ==
    LET rt == RowTimestamps(f)
        dates == ObservedDates(rt)
    IN  /\ f.kind = "ok"
        /\ NonBlankRows(f) # {}
        /\ DOMAIN rt = NonBlankRows(f)
        /\ \A k \in NonBlankRows(f) :
               Len(f.data[k]) >= 2 /\ IsDecimalNumber(f.data[k][2], cfg.decimal_separator)
        /\ \A k \in DOMAIN rt : Occurrences(rt, k) = {k}
        /\ \A d \in dates : ObservedHours(rt, d) = 0..23
        /\ \A d \in dates :
               \/ \A e \in dates : DayNumber(d) <= DayNumber(e)
               \/ \E e \in dates : DayNumber(e) + 1 = DayNumber(d)

C2_CleanTableIsValid ==
    (ContentReturned /\ CleanTable(CurFile, config)) =>
        content_result = [is_valid |-> TRUE, errors |-> <<>>]

\* 48 continuous hours over two days were validated
C2_Witness ==
    /\ ContentReturned
    /\ CleanTable(CurFile, config)
    /\ Cardinality(ObservedDates(RowTimestamps(CurFile))) = 2
    /\ content_result.is_valid

(***************************************************************************)
(* C3: a timestamp that occurs at k rows produces exactly k-1 duplicate    *)
(* errors, one for each occurrence after the first, each naming the row    *)
(* of that occurrence, the raw text of that row and the row number of the  *)
(* first occurrence.                                                       *)
(***************************************************************************)
\* the duplicate error row k of the file must yield (row numbers count the header)
DuplicateOf(f, rt, k) ==
    ErrDuplicate(k + 1, f.data[k][1], MinOf(Occurrences(rt, k)) + 1)

C3_DuplicateErrors ==
    (ContentReturned /\ CurFile.kind # "nohdr") =>
        LET f == CurFile
            rt == RowTimestamps(f)
            dups == ErrorsOfKind(content_result.errors, "duplicate")
            dupTs == [i \in 1..Len(dups) |-> Strptime(dups[i].text).ts]
        IN  /\ \A k \in DOMAIN rt :
                   Cardinality({i \in 1..Len(dups) : dups[i].row = k + 1})
                       = (IF k = MinOf(Occurrences(rt, k)) THEN 0 ELSE 1)
            /\ \A i \in 1..Len(dups) :
                   /\ dups[i].row - 1 \in DOMAIN rt
                   /\ dups[i] = DuplicateOf(f, rt, dups[i].row - 1)
            /\ \A k \in DOMAIN rt :
                   Cardinality({i \in 1..Len(dups) : dupTs[i] = rt[k]})
                       = Cardinality(Occurrences(rt, k)) - 1

\* a timestamp at three rows gave two duplicate errors, both citing the first row
C3_Witness ==
    /\ ContentReturned
    /\ CurFile.kind # "nohdr"
    /\ LET f == CurFile
           rt == RowTimestamps(f)
       IN  \E k \in DOMAIN rt :
               /\ Cardinality(Occurrences(rt, k)) = 3
               /\ k = MaxOf(Occurrences(rt, k))
               /\ DuplicateOf(f, rt, k) \in Range(content_result.errors)
               /\ DuplicateOf(f, rt, k).text.form = "padded"
               /\ \E j \in Occurrences(rt, k) :
                      /\ f.data[j][1].form = "unpadded"
                      /\ DuplicateOf(f, rt, j) \in Range(content_result.errors)

(***************************************************************************)
(* C4: after the row scan, every observed date whose observed hours are    *)
(* not all of 0..23 yields exactly one 'Missing hours' error, whose list   *)
(* is the ascending list of {0..23} minus the observed hours; a date with  *)
(* all 24 hours yields none.                                               *)
(***************************************************************************)
StrictlyAscending(seq) == \A i \in 1..(Len(seq) - 1) : seq[i] < seq[i + 1]

C4_MissingHours ==
    ScanCompleted =>
        LET rt == RowTimestamps(CurFile)
            dates == ObservedDates(rt)
            miss == ErrorsOfKind(content_result.errors, "missing_hours")
        IN  /\ \A d \in dates :
                   LET forD == {i \in 1..Len(miss) : miss[i].date = d}
                       hours == ObservedHours(rt, d)
                   IN  IF hours # 0..23
                       THEN /\ Cardinality(forD) = 1
                            /\ \A i \in forD :
                                   /\ StrictlyAscending(miss[i].hours)
                                   /\ Range(miss[i].hours) = (0..23) \ hours
                       ELSE forD = {}
            /\ \A i \in 1..Len(miss) : miss[i].date \in dates

\* a date with the hours 0, 1, 2 and 4: hour 3 and the hours from 5 are missing
C4_Witness ==
    /\ ScanCompleted
    /\ \E e \in Range(content_result.errors) :
           /\ e.kind = "missing_hours"
           /\ Len(e.hours) = 20
           /\ e.hours[1] = 3
           /\ e.hours[2] = 5
           /\ ObservedHours(RowTimestamps(CurFile), e.date) = {0, 1, 2, 4}

(***************************************************************************)
(* C5: the observed dates are de-duplicated and sorted ascending, and      *)
(* exactly one gap error is emitted for each pair of consecutive sorted    *)
(* dates that are not one calendar day apart, naming both dates, whatever  *)
(* the order of the rows in the file.                                      *)
(***************************************************************************)
\* pairs of dates of the set with no date of the set between them
ConsecutiveDates(dates) ==
    {p \in dates \X dates :
        /\ DayNumber(p[1]) < DayNumber(p[2])
        /\ ~ \E c \in dates : DayNumber(p[1]) < DayNumber(c) /\ DayNumber(c) < DayNumber(p[2])}

NonAdjacentDates(dates) ==
    {p \in ConsecutiveDates(dates) : DayNumber(p[2]) # DayNumber(p[1]) + 1}

C5_GapErrors ==
    ScanCompleted =>
        LET gaps == ErrorsOfKind(content_result.errors, "gap")
            apart == NonAdjacentDates(ObservedDates(RowTimestamps(CurFile)))
        IN  /\ Len(gaps) = Cardinality(apart)
            /\ \A p \in apart :
                   Cardinality({i \in 1..Len(gaps) :
                                   gaps[i].date = p[1] /\ gaps[i].date2 = p[2]}) = 1
            /\ \A i \in 1..Len(gaps) : <<gaps[i].date, gaps[i].date2>> \in apart
            /\ \A i \in 1..(Len(gaps) - 1) :
                   DayNumber(gaps[i].date) < DayNumber(gaps[i + 1].date)

\* rows of three dates, the latest date first: two gap errors in calendar order
C5_Witness ==
    /\ ScanCompleted
    /\ Cardinality(ObservedDates(RowTimestamps(CurFile))) = 3
    /\ TsOfRow(CurFile, MinOf(ParsedRows(CurFile))).date = D4
    /\ LET gaps == ErrorsOfKind(content_result.errors, "gap")
       IN  /\ Len(gaps) = 2
           /\ gaps[1].date = D1 /\ gaps[1].date2 = D3
           /\ gaps[2].date = D3 /\ gaps[2].date2 = D4

(***************************************************************************)
(* C6: when the table has a header row and no data rows,                   *)
(* validate_file_content returns is_valid = false with exactly one error,  *)
(* the 'File contains only a header row' message, and no missing-hour or   *)
(* gap error.                                                              *)
(***************************************************************************)
C6_OnlyHeader ==
    (ScanCompleted /\ NonBlankRows(CurFile) = {}) =>
        content_result = [is_valid |-> FALSE, errors |-> <<ErrOnlyHeader>>]

\* a file of one header row was validated
C6_Witness ==
    /\ ScanCompleted
    /\ Len(CurFile.data) = 0
    /\ content_result.errors = <<ErrOnlyHeader>>
    /\ ~content_result.is_valid

(***************************************************************************)
(* C7: for a data row whose column 1 does not parse, exactly one error is  *)
(* recorded for the row ('Invalid datetime format in column 1' with the    *)
(* row number), no power-value or duplicate error; the seen-timestamp      *)
(* set, the per-timestamp row lists and the per-date hour sets are left    *)
(* unchanged, and the scan continues with the next row.                    *)
(***************************************************************************)
\* the scan is about to process a non-blank row
AtRow == pc = "scan" /\ row_idx <= Len(CurFile.data) /\ Len(CurFile.data[row_idx]) > 0

C7_UnparsableRow ==
    [][(AtRow /\ ~Strptime(CurFile.data[row_idx][1]).ok) =>
           /\ errors' = Append(errors, ErrDatetime(row_idx + 1))
           /\ seen_timestamps' = seen_timestamps
           /\ timestamp_line_numbers' = timestamp_line_numbers
           /\ hours_by_date' = hours_by_date
           /\ pc' = "scan"
           /\ row_idx' = row_idx + 1]_vars

\* an unparsable row with a non-numeric column 2 was scanned after a tracked
\* row, and a further row is waiting
C7_Witness ==
    /\ pc = "scan"
    /\ row_idx > 1
    /\ row_idx <= Len(CurFile.data)
    /\ row_idx - 1 \in NonBlankRows(CurFile) \ ParsedRows(CurFile)
    /\ PowerInvalid(CurFile.data[row_idx - 1], config)
    /\ seen_timestamps # {}
    /\ errors[Len(errors)] = ErrDatetime(row_idx)

(***************************************************************************)
(* C8: for a data row whose column 1 parses, 'Invalid power value in       *)
(* column 2' with the row number is recorded exactly when column 2 is      *)
(* absent or is not a number after stripping surrounding double quotes     *)
(* and replacing the configured decimal separator by a period; the row's   *)
(* timestamp, row number and hour are tracked all the same.                *)
(***************************************************************************)
NotANumber(row, sep) ==
    \/ Len(row) < 2
    \/ ~FloatParses(Replace(Strip(row[2], "\""), sep, "."))

C8_PowerValue ==
    [][(AtRow /\ Strptime(CurFile.data[row_idx][1]).ok) =>
           LET row == CurFile.data[row_idx]
               ts == Strptime(row[1]).ts
               bad == NotANumber(row, config.decimal_separator)
               tln == timestamp_line_numbers'
           IN  /\ (ErrPower(row_idx + 1) \in Range(errors')) <=> bad
               /\ Len(ErrorsOfKind(errors', "invalid_power"))
                      = Len(ErrorsOfKind(errors, "invalid_power")) + (IF bad THEN 1 ELSE 0)
               /\ ts \in seen_timestamps'
               /\ ts \in DOMAIN tln
               /\ tln[ts][Len(tln[ts])] = row_idx + 1
               /\ \E k \in 1..Len(hours_by_date') :
                      hours_by_date'[k].date = ts.date /\ ts.hour \in hours_by_date'[k].hours
               /\ row_idx' = row_idx + 1]_vars

\* a parsable row without column 2 was scanned: the error is recorded and the
\* row is tracked
C8_Witness ==
    /\ pc = "scan"
    /\ row_idx > 1
    /\ row_idx - 1 \in ParsedRows(CurFile)
    /\ Len(CurFile.data[row_idx - 1]) = 1
    /\ errors[Len(errors)] = ErrPower(row_idx)
    /\ TsOfRow(CurFile, row_idx - 1) \in seen_timestamps

(***************************************************************************)
(* C9 as stated: validate_file_structure records a mismatch error for      *)
(* each position of the required header list at which the file's header    *)
(* token differs from the required token, and an insufficient-columns      *)
(* error when the header has fewer columns than the required list, for a   *)
(* header row of any length.                                               *)
(***************************************************************************)
HeaderRead == StructureReturned /\ CurFile.kind # "nohdr"

C9_AnyLength ==
    HeaderRead =>
        LET h == CurFile.hdr
            req == required_headers
            errs == Range(structure_result.errors)
        IN  /\ \A i \in 1..Len(req) :
                   (i <= Len(h) /\ h[i] # req[i]) => ErrHeaderMismatch(req[i], i) \in errs
            /\ Len(h) < Len(req) => ErrHeaderShort(Len(req)) \in errs

(***************************************************************************)
(* C9 amended: when the header has at least as many columns as the         *)
(* required list, one mismatch error is recorded for each position at      *)
(* which the header token differs, naming the required header and the      *)
(* 1-based position; when the header has fewer columns, the                *)
(* insufficient-columns error is recorded and no mismatch error.           *)
(***************************************************************************)
C9_HeaderErrors ==
    HeaderRead =>
        LET h == CurFile.hdr
            req == required_headers
            he == SelectSeq(structure_result.errors,
                            LAMBDA e : e.kind \in {"header_insufficient", "header_mismatch"})
        IN  IF Len(h) < Len(req) THEN he = <<ErrHeaderShort(Len(req))>>
            ELSE /\ \A i \in 1..Len(req) :
                        (h[i] # req[i]) <=> (ErrHeaderMismatch(req[i], i) \in Range(he))
                 /\ Len(he) = Cardinality({i \in 1..Len(req) : h[i] # req[i]})
                 /\ \A i \in 1..Len(he) : he[i].kind = "header_mismatch"

\* a header of one column, whose token is not the required one, gave the
\* insufficient-columns error alone
C9_Witness ==
    /\ HeaderRead
    /\ CurFile.hdr = <<"Power">>
    /\ structure_result.errors[1] = ErrHeaderShort(2)
    /\ ErrorsOfKind(structure_result.errors, "header_mismatch") = <<>>

(***************************************************************************)
(* C10: validate_file_structure records one insufficient-columns error,    *)
(* naming the 1-based row number with the header as row 1, for every row   *)
(* after the header with fewer columns than the required header list and   *)
(* none for the other rows; a file whose header matches and whose rows     *)
(* all have enough columns yields no structural error, whatever trailing   *)
(* columns it has.                                                         *)
(***************************************************************************)
C10_RowColumns ==
    HeaderRead =>
        LET f == CurFile
            n == Len(required_headers)
            rs == ErrorsOfKind(structure_result.errors, "row_insufficient")
        IN  /\ \A k \in 1..Len(f.data) :
                   Cardinality({i \in 1..Len(rs) : rs[i] = ErrRowShort(k + 1, n)})
                       = (IF Len(f.data[k]) < n THEN 1 ELSE 0)
            /\ \A i \in 1..Len(rs) :
                   /\ rs[i].row - 1 \in 1..Len(f.data)
                   /\ rs[i] = ErrRowShort(rs[i].row, n)
            /\ ( /\ f.kind = "ok"
                 /\ Len(f.hdr) >= n
                 /\ \A i \in 1..n : f.hdr[i] = required_headers[i]
                 /\ \A k \in 1..Len(f.data) : Len(f.data[k]) >= n )
                   => structure_result = [is_valid |-> TRUE, errors |-> <<>>]

\* header and first row with trailer columns, second row with one column
C10_Witness ==
    /\ HeaderRead
    /\ CurFile.kind = "ok"
    /\ Len(CurFile.hdr) = 4
    /\ Len(CurFile.data) = 2
    /\ Len(CurFile.data[1]) = 4
    /\ Len(CurFile.data[2]) = 1
    /\ structure_result.errors = <<ErrRowShort(3, 2)>>

(***************************************************************************)
(* C11: neither validate_file_structure nor validate_file_content ever     *)
(* raises: for every file content (no header row, malformed rows, a file   *)
(* that cannot be read to its end) each returns a pair of a boolean and a  *)
(* list of errors, with is_valid = FALSE whenever a failure occurred; at   *)
(* every point of a call one of its steps can be taken, up to the return.  *)
(***************************************************************************)
ErrorKinds ==
    {"header_insufficient", "header_mismatch", "row_insufficient",
     "error_reading_file", "duplicate", "invalid_power", "invalid_datetime",
     "only_header", "missing_hours", "gap", "error_validating_content"}

IsResultPair(r) ==
    /\ DOMAIN r = {"is_valid", "errors"}
    /\ r.is_valid \in BOOLEAN
    /\ \A i \in 1..Len(r.errors) : r.errors[i].kind \in ErrorKinds

\* reading the file fails before or after the rows listed
ReadFails(f) == f.kind \in {"nohdr", "trunc"}
\* a row with fewer columns than required, or whose columns do not parse
MalformedRow(row, cfg) ==
    /\ Len(row) > 0
    /\ \/ Len(row) < Len(required_headers)
       \/ ~Strptime(row[1]).ok
       \/ PowerInvalid(row, cfg)

C11_NeverRaises ==
    /\ StructureReturned =>
           /\ IsResultPair(structure_result)
           /\ ReadFails(CurFile) =>
                  /\ ~structure_result.is_valid
                  /\ structure_result.errors[Len(structure_result.errors)] = ErrReadingFile
           /\ (\E k \in 1..Len(CurFile.data) : Len(CurFile.data[k]) < Len(required_headers))
                  => ~structure_result.is_valid
    /\ ContentReturned =>
           /\ IsResultPair(content_result)
           /\ ReadFails(CurFile) =>
                  /\ ~content_result.is_valid
                  /\ content_result.errors[Len(content_result.errors)] = ErrValidatingContent
           /\ (\E k \in 1..Len(CurFile.data) : MalformedRow(CurFile.data[k], config))
                  => ~content_result.is_valid
    /\ pc \in {"structure", "content"} => CurFile.kind \in {"ok", "trunc", "nohdr"}
    /\ pc = "scan" =>
           \/ row_idx <= Len(CurFile.data)
           \/ CurFile.kind \in {"ok", "trunc"}

\* a file with a malformed row whose reading fails after that row: both
\* validators returned a pair that ends with their wrapped message
C11_Witness ==
    /\ ContentReturned
    /\ CurFile.kind = "trunc"
    /\ Len(CurFile.data) = 1
    /\ Len(CurFile.data[1]) = 1
    /\ Len(structure_result.errors) > 1
    /\ Len(content_result.errors) > 1
    /\ ~structure_result.is_valid
    /\ ~content_result.is_valid

(***************************************************************************)
(* getTibberData.py.  Strings are sequences of characters.                 *)
(***************************************************************************)
LastYear == 2025
Years == 2024..LastYear

DigitSeq == <<"0", "1", "2", "3", "4", "5", "6", "7", "8", "9">>
DigitChar(n) == DigitSeq[n + 1]
DigitValue(c) == CHOOSE n \in 0..9 : DigitSeq[n + 1] = c
AllDigits(s) == \A i \in 1..Len(s) : s[i] \in Digits

RECURSIVE ToInt(_)
\* int(s) for a string of digits
ToInt(s) ==
    IF Len(s) = 0 THEN 0
    ELSE 10 * ToInt(SubSeq(s, 1, Len(s) - 1)) + DigitValue(s[Len(s)])

\* '%02d', '%04d'
Fmt2(n) == <<DigitChar((n \div 10) % 10), DigitChar(n % 10)>>
Fmt4(n) == Fmt2(n \div 100) \o Fmt2(n % 100)

\* s.count(c), c in s
Count(s, c) == Cardinality({i \in 1..Len(s) : s[i] = c})
Contains(s, c) == \E i \in 1..Len(s) : s[i] = c

RECURSIVE Split(_, _)
\* s.split(c)
Split(s, c) ==
    IF ~Contains(s, c) THEN <<s>>
    ELSE LET i == MinOf({j \in 1..Len(s) : s[j] = c})
         IN  <<SubSeq(s, 1, i - 1)>> \o Split(SubSeq(s, i + 1, Len(s)), c)

\* s.strip()
StripWs(s) == Strip(s, " ")

\* datetime < datetime
DtLess(a, b) ==
    \/ DateLess(a.date, b.date)
    \/ /\ a.date = b.date
       /\ \/ a.hour < b.hour
          \/ a.hour = b.hour /\ a.minute < b.minute

DtLeq(a, b) == ~DtLess(b, a)

\* dt.strftime('%Y-%m')
StrftimeYm(dt) == Fmt4(dt.date[1]) \o <<"-">> \o Fmt2(dt.date[2])

\* datetime.strptime(s, '%Y-%m'): four digits, a hyphen, and a month
\* written 01..12 or 1..9; ok = FALSE stands for ValueError
StrptimeYm(s) ==
    LET shaped == /\ Len(s) \in {6, 7}
                  /\ AllDigits(SubSeq(s, 1, 4))
                  /\ s[5] = "-"
                  /\ AllDigits(SubSeq(s, 6, Len(s)))
        y == ToInt(SubSeq(s, 1, 4))
        m == ToInt(SubSeq(s, 6, Len(s)))
    IN  IF shaped /\ y >= 1 /\ m \in 1..12
        THEN [ok |-> TRUE, dt |-> Datetime(<<y, m, 1>>, 0, 0)]
        ELSE [ok |-> FALSE, dt |-> NoDatetime]

(***************************************************************************)
(* parse_date_range                                                        *)
(***************************************************************************)
ParseRaised == [raised |-> TRUE, start |-> NoDatetime, end |-> NoDatetime]

\* parse_date_range without the check against datetime.now()
parse_date_rangeNoFutureCheck(range, current) ==
    LET parts == Split(range, ";")
    IN  IF Len(parts) # 2 THEN ParseRaised
        ELSE LET start == StrptimeYm(StripWs(parts[1]))
                 end == StrptimeYm(StripWs(parts[2]))
             IN  IF ~start.ok \/ ~end.ok THEN ParseRaised
                 ELSE IF DtLess(end.dt, start.dt) THEN ParseRaised
                 ELSE [raised |-> FALSE, start |-> start.dt, end |-> end.dt]

\* parse_date_range(date_range) when datetime.now() gives current
parse_date_range(range, current) ==
    LET parts == Split(range, ";")
    IN  IF Len(parts) # 2 THEN ParseRaised
        ELSE LET start == StrptimeYm(StripWs(parts[1]))
                 end == StrptimeYm(StripWs(parts[2]))
             IN  IF ~start.ok \/ ~end.ok THEN ParseRaised
                 ELSE IF DtLess(end.dt, start.dt) THEN ParseRaised
                 ELSE IF DtLess(current, end.dt) THEN ParseRaised
                 ELSE [raised |-> FALSE, start |-> start.dt, end |-> end.dt]

(***************************************************************************)
(* generate_month_range                                                    *)
(***************************************************************************)
\* dt.replace(year=y, month=m): ok = FALSE stands for ValueError (the day
\* does not exist in that month)
ReplaceMonth(dt, y, m) ==
    IF m \in 1..12 /\ dt.date[3] <= DaysInMonth(y, m)
    THEN [ok |-> TRUE, dt |-> Datetime(<<y, m, dt.date[3]>>, dt.hour, dt.minute)]
    ELSE [ok |-> FALSE, dt |-> NoDatetime]

\* the move to the next month without the December branch
NextMonthOfNoWrap(dt) == ReplaceMonth(dt, dt.date[1], dt.date[2] + 1)

\* "Move to next month"
NextMonthOf(dt) ==
    IF dt.date[2] = 12 THEN ReplaceMonth(dt, dt.date[1] + 1, 1)
    ELSE ReplaceMonth(dt, dt.date[1], dt.date[2] + 1)

(***************************************************************************)
(* Inputs of the getTibberData functions.                                  *)
(***************************************************************************)
\* datetimes handed to generate_month_range: first, middle and last days
GenDates ==
    {Datetime(<<y, m, d>>, h, 0) :
        y \in Years, m \in 1..12, d \in {1, 15, 31}, h \in {0}}
      \cup {Datetime(<<y, m, 1>>, 12, 0) : y \in Years, m \in {1, 3, 12}}

ValidDatetime(dt) ==
    /\ dt.date[2] \in 1..12
    /\ dt.date[3] \in 1..DaysInMonth(dt.date[1], dt.date[2])
    /\ dt.hour \in 0..23
    /\ dt.minute \in 0..59

\* the tokens of a date range text
RangeMonths == {1, 2, 5, 6, 7, 12}
RangeTokens ==
    {Fmt4(y) \o <<"-">> \o Fmt2(m) : y \in Years, m \in RangeMonths \cup {0, 13}}
      \cup {Fmt4(y) \o <<"-">> \o <<DigitChar(m)>> : y \in {2024}, m \in {5, 6}}
      \cup {Fmt4(y) \o <<"/">> \o Fmt2(m) : y \in {2024}, m \in {6}}
      \cup {<<>>, <<"2", "4", "-", "0", "6">>}

\* the ways two tokens are put together
JoinTokens(a, b, how) ==
    CASE how = "plain"  -> a \o <<";">> \o b
      [] how = "space"  -> a \o <<";", " ">> \o b
      [] how = "padded" -> <<" ", " ">> \o a \o <<" ", " ", ";", " ", " ">> \o b \o <<" ", " ">>
      [] how = "hyphen" -> a \o <<"-">> \o b
      [] how = "three"  -> a \o <<";">> \o b \o <<";">> \o b

Joins == {"plain", "space", "padded", "hyphen", "three"}

\* datetime.now() at the call: the middle of a month, the first instant of
\* a month, the last minute of a year
Nows ==
    {Datetime(<<2024, 6, 15>>, 12, 0), Datetime(<<2024, 6, 1>>, 0, 0),
     Datetime(<<LastYear, 12, 31>>, 23, 59)}

(***************************************************************************)
(* The calls, one function at a time.  tpc = "ready": nothing called yet.  *)
(***************************************************************************)
ValidatorIdle ==
    /\ config = CHOOSE c \in Configs : TRUE
    /\ files = <<>>
    /\ pc = "done"
    /\ fi = 0
    /\ results = <<>>
    /\ structure_result = NoResult
    /\ content_result = NoResult
    /\ row_idx = 0
    /\ errors = <<>>
    /\ seen_timestamps = {}
    /\ has_data_rows = FALSE
    /\ hours_by_date = <<>>
    /\ timestamp_line_numbers = EmptyDict

TibberInit ==
    /\ ValidatorIdle
    /\ ProcessIdle
    /\ tpc = "ready"
    /\ system_tz = "UTC"
    /\ python_version = "3.9"
    /\ arg = <<>>
    /\ now = NoDatetime
    /\ date_range = <<>>
    /\ start_date = NoDatetime
    /\ end_date = NoDatetime
    /\ current_date = NoDatetime
    /\ month_range = <<>>
    /\ date_str = <<>>
    /\ ret = NoRet

\* parse_date_range(date_range), datetime.now() read during the call
CallParseDateRange ==
    /\ tpc = "ready"
    /\ \E a \in RangeTokens, b \in RangeTokens, how \in Joins, current \in Nows :
          LET r == parse_date_range(JoinTokens(a, b, how), current)
          IN  /\ date_range' = JoinTokens(a, b, how)
              /\ now' = current
              /\ start_date' = r.start
              /\ end_date' = r.end
              /\ ret' = IF r.raised THEN Raised ELSE NoRet
    /\ tpc' = "parse_done"
    /\ UNCHANGED <<validator, process, system_tz, python_version, arg, current_date, month_range, date_str>>

\* generate_month_range(start_date, end_date) is entered: with what
\* parse_date_range returned, or with two datetimes of the caller
EnterGenerate(start, end) ==
    /\ start_date' = start
    /\ end_date' = end
    /\ current_date' = start
    /\ month_range' = <<>>
    /\ tpc' = "generate"
    /\ UNCHANGED <<validator, process, system_tz, python_version, arg, now, date_range, date_str, ret>>

CallGenerateParsed ==
    /\ tpc = "parse_done"
    /\ ~ret.raised
    /\ EnterGenerate(start_date, end_date)

CallGenerateMonthRange ==
    /\ tpc = "ready"
    /\ \E start \in GenDates, end \in GenDates :
          /\ ValidDatetime(start)
          /\ ValidDatetime(end)
          /\ EnterGenerate(start, end)

\* one iteration of "while current_date <= end_date"
GenerateLoop ==
    /\ tpc = "generate"
    /\ DtLeq(current_date, end_date)
    /\ month_range' = Append(month_range, StrftimeYm(current_date))
    /\ LET next == NextMonthOf(current_date)
       IN  IF next.ok
           THEN /\ current_date' = next.dt
                /\ UNCHANGED <<tpc, ret>>
           ELSE /\ tpc' = "generate_done"
                /\ ret' = Raised
                /\ UNCHANGED current_date
    /\ UNCHANGED <<validator, process, system_tz, python_version, arg, now, date_range, start_date, end_date, date_str>>

\* the loop ends: return month_range
GenerateReturn ==
    /\ tpc = "generate"
    /\ ~DtLeq(current_date, end_date)
    /\ tpc' = "generate_done"
    /\ ret' = Returned(<<>>, Len(month_range))
    /\ UNCHANGED <<validator, process, system_tz, python_version, arg, now, date_range, start_date, end_date,
                   current_date, month_range, date_str>>

(***************************************************************************)
(* Months counted from year 0: year * 12 + (month - 1).                    *)
(***************************************************************************)
MonthNumber(dt) == dt.date[1] * 12 + (dt.date[2] - 1)
YearMonthOf(k) == Fmt4(k \div 12) \o <<"-">> \o Fmt2((k % 12) + 1)
\* the year-months from the month of start to the month of end
MonthsBetween(start, end) ==
    [i \in 1..(MonthNumber(end) - MonthNumber(start) + 1) |->
        YearMonthOf(MonthNumber(start) + i - 1)]
\* the number of a text YYYY-MM
MonthNumberOfText(ym) == ToInt(SubSeq(ym, 1, 4)) * 12 + (ToInt(SubSeq(ym, 6, 7)) - 1)
FirstOfMonth(dt) == dt.date[3] = 1 /\ dt.hour = 0 /\ dt.minute = 0
GenerateDone == tpc = "generate_done"

(***************************************************************************)
(* C12: for start <= end given as first-of-month dates (as                 *)
(* parse_date_range returns them), generate_month_range returns a list of  *)
(* length (end.year*12+end.month) - (start.year*12+start.month) + 1 that   *)
(* is strictly ascending, has one entry per calendar month with December   *)
(* followed by January of the next year, and whose first and last          *)
(* elements are the months of start and end; one element for start = end.  *)
(***************************************************************************)
C12_MonthRange ==
    ( /\ GenerateDone
      /\ FirstOfMonth(start_date)
      /\ FirstOfMonth(end_date)
      /\ DtLeq(start_date, end_date) ) =>
        LET n == Len(month_range)
        IN  /\ ~ret.raised
            /\ n = (end_date.date[1] * 12 + end_date.date[2])
                     - (start_date.date[1] * 12 + start_date.date[2]) + 1
            /\ \A i \in 1..(n - 1) :
                   /\ MonthNumberOfText(month_range[i + 1])
                          = MonthNumberOfText(month_range[i]) + 1
                   /\ SubSeq(month_range[i], 6, 7) = <<"1", "2">> =>
                          /\ SubSeq(month_range[i + 1], 6, 7) = <<"0", "1">>
                          /\ ToInt(SubSeq(month_range[i + 1], 1, 4))
                                 = ToInt(SubSeq(month_range[i], 1, 4)) + 1
            /\ month_range = MonthsBetween(start_date, end_date)
            /\ month_range[1] = StrftimeYm(start_date)
            /\ month_range[n] = StrftimeYm(end_date)
            /\ (start_date = end_date) => n = 1

\* the range "2024-12; 2025-02" was parsed and gave three months across the
\* turn of the year
C12_Witness ==
    /\ GenerateDone
    /\ date_range # <<>>
    /\ start_date = Datetime(<<2024, 12, 1>>, 0, 0)
    /\ end_date = Datetime(<<2025, 2, 1>>, 0, 0)
    /\ Len(month_range) = 3
    /\ month_range[2] = <<"2", "0", "2", "5", "-", "0", "1">>

(***************************************************************************)
(* C13: for any two datetimes start_date <= end_date, whatever their day   *)
(* of month and time of day, generate_month_range returns every            *)
(* year-month from the month of start_date to the month of end_date        *)
(* inclusive: the first element is start_date's month and the last         *)
(* element is end_date's month.                                            *)
(***************************************************************************)
C13_AnyDayAndTime ==
    (GenerateDone /\ DtLeq(start_date, end_date)) =>
        /\ ~ret.raised
        /\ month_range = MonthsBetween(start_date, end_date)
        /\ month_range[1] = StrftimeYm(start_date)
        /\ month_range[Len(month_range)] = StrftimeYm(end_date)

(***************************************************************************)
(* C14: parse_date_range succeeds exactly when the text is two YYYY-MM     *)
(* tokens separated by ';' (surrounding whitespace ignored) that both      *)
(* denote real months, with end not before start and end not strictly      *)
(* after the current month; otherwise it raises ValueError.  A range whose *)
(* end is the current month is accepted, one whose end is the month after  *)
(* the current one is rejected, and start = end is accepted.               *)
(***************************************************************************)
ParseDone == tpc = "parse_done"

\* a token YYYY-MM: four digits, a hyphen, two digits that name a month
IsYearMonthToken(t) ==
    /\ Len(t) = 7
    /\ AllDigits(SubSeq(t, 1, 4))
    /\ t[5] = "-"
    /\ AllDigits(SubSeq(t, 6, 7))
    /\ ToInt(SubSeq(t, 1, 4)) >= 1
    /\ ToInt(SubSeq(t, 6, 7)) \in 1..12

TokenMonthNumber(t) == ToInt(SubSeq(t, 1, 4)) * 12 + (ToInt(SubSeq(t, 6, Len(t))) - 1)

\* the text is a ; b with whitespace around the tokens, both are YYYY-MM
\* tokens, b is not before a and not after the month of now
WellFormedRange(text, current) ==
    \E a \in RangeTokens, b \in RangeTokens, how \in {"plain", "space", "padded"} :
        /\ text = JoinTokens(a, b, how)
        /\ IsYearMonthToken(a)
        /\ IsYearMonthToken(b)
        /\ TokenMonthNumber(a) <= TokenMonthNumber(b)
        /\ TokenMonthNumber(b) <= MonthNumber(current)

C14_SucceedsExactly ==
    ParseDone =>
        /\ ~ret.raised <=> WellFormedRange(date_range, now)
        /\ ~ret.raised =>
               /\ FirstOfMonth(start_date)
               /\ FirstOfMonth(end_date)
               /\ \E a \in RangeTokens, b \in RangeTokens, how \in Joins :
                      /\ date_range = JoinTokens(a, b, how)
                      /\ MonthNumber(start_date) = TokenMonthNumber(a)
                      /\ MonthNumber(end_date) = TokenMonthNumber(b)

\* a token as strptime('%Y-%m') reads it: the month written 01..12 or 1..9
IsYearMonthText(t) ==
    /\ Len(t) \in {6, 7}
    /\ AllDigits(SubSeq(t, 1, 4))
    /\ t[5] = "-"
    /\ AllDigits(SubSeq(t, 6, Len(t)))
    /\ ToInt(SubSeq(t, 1, 4)) >= 1
    /\ ToInt(SubSeq(t, 6, Len(t))) \in 1..12

\* what parse_date_range accepts: as C14 says, but the month of a token may
\* be written without its leading zero
ParseAcceptsLenientTokens ==
    ParseDone =>
        ~ret.raised <=>
            \E a \in RangeTokens, b \in RangeTokens, how \in {"plain", "space", "padded"} :
                /\ date_range = JoinTokens(a, b, how)
                /\ IsYearMonthText(a)
                /\ IsYearMonthText(b)
                /\ TokenMonthNumber(a) <= TokenMonthNumber(b)
                /\ TokenMonthNumber(b) <= MonthNumber(now)

(***************************************************************************)
(* Characters and bytes.  The printable ASCII characters in code order     *)
(* (the backslash and the backtick are written out as words); Ord[c] is    *)
(* the code of c, which is also its UTF-8 encoding.                        *)
(***************************************************************************)
Printable ==
    <<
      " ", "!", "\"", "#", "$", "%", "&", "'", "(", ")", "*", "+",
      ",", "-", ".", "/", "0", "1", "2", "3", "4", "5", "6", "7",
      "8", "9", ":", ";", "<", "=", ">", "?", "@", "A", "B", "C",
      "D", "E", "F", "G", "H", "I", "J", "K", "L", "M", "N", "O",
      "P", "Q", "R", "S", "T", "U", "V", "W", "X", "Y", "Z", "[",
      "backslash", "]", "^", "_", "backtick", "a", "b", "c", "d", "e", "f", "g",
      "h", "i", "j", "k", "l", "m", "n", "o", "p", "q", "r", "s",
      "t", "u", "v", "w", "x", "y", "z", "{", "|", "}", "~"
    >>

Ord ==
    [c \in {Printable[i] : i \in 1..Len(Printable)} |->
        31 + CHOOSE i \in 1..Len(Printable) : Printable[i] = c]
Chr(b) == Printable[b - 31]

\* s.encode('utf-8') for a string of ASCII characters
Utf8Encode(s) == [i \in 1..Len(s) |-> Ord[s[i]]]

RECURSIVE Utf8Valid(_, _)
\* bytes.decode('utf-8') succeeds on b from position i on
Utf8Valid(b, i) ==
    IF i > Len(b) THEN TRUE
    ELSE LET x == b[i]
             cont(k) == i + k <= Len(b) /\ b[i + k] \in 128..191
         IN  IF x < 128 THEN Utf8Valid(b, i + 1)
             ELSE IF x \in 194..223 THEN cont(1) /\ Utf8Valid(b, i + 2)
             ELSE IF x \in 224..239
                  THEN /\ cont(1) /\ cont(2)
                       /\ (x = 224 => b[i + 1] >= 160)
                       /\ (x = 237 => b[i + 1] <= 159)
                       /\ Utf8Valid(b, i + 3)
             ELSE IF x \in 240..244
                  THEN /\ cont(1) /\ cont(2) /\ cont(3)
                       /\ (x = 240 => b[i + 1] >= 144)
                       /\ (x = 244 => b[i + 1] <= 143)
                       /\ Utf8Valid(b, i + 4)
             ELSE FALSE

(***************************************************************************)
(* base64                                                                  *)
(***************************************************************************)
\* A-Z a-z 0-9 + /
B64Alphabet ==
    SubSeq(Printable, 34, 59) \o SubSeq(Printable, 66, 91)
        \o SubSeq(Printable, 17, 26) \o <<"+", "/">>

B64Value ==
    [c \in {B64Alphabet[i] : i \in 1..Len(B64Alphabet)} |->
        (CHOOSE i \in 1..Len(B64Alphabet) : B64Alphabet[i] = c) - 1]

RECURSIVE b64encodeNoPadding(_)
\* b64encode that leaves out the padding characters
b64encodeNoPadding(b) ==
    IF Len(b) = 0 THEN <<>>
    ELSE LET b1 == b[1]
             b2 == IF Len(b) >= 2 THEN b[2] ELSE 0
             b3 == IF Len(b) >= 3 THEN b[3] ELSE 0
             c1 == B64Alphabet[(b1 \div 4) + 1]
             c2 == B64Alphabet[((b1 % 4) * 16 + (b2 \div 16)) + 1]
             c3 == B64Alphabet[((b2 % 16) * 4 + (b3 \div 64)) + 1]
             c4 == B64Alphabet[(b3 % 64) + 1]
         IN  IF Len(b) = 1 THEN <<c1, c2>>
             ELSE IF Len(b) = 2 THEN <<c1, c2, c3>>
             ELSE <<c1, c2, c3, c4>> \o b64encodeNoPadding(SubSeq(b, 4, Len(b)))

RECURSIVE b64encode(_)
\* base64.b64encode(b): three bytes give four characters, the last group
\* is padded with "="
b64encode(b) ==
    IF Len(b) = 0 THEN <<>>
    ELSE LET b1 == b[1]
             b2 == IF Len(b) >= 2 THEN b[2] ELSE 0
             b3 == IF Len(b) >= 3 THEN b[3] ELSE 0
             c1 == B64Alphabet[(b1 \div 4) + 1]
             c2 == B64Alphabet[((b1 % 4) * 16 + (b2 \div 16)) + 1]
             c3 == B64Alphabet[((b2 % 16) * 4 + (b3 \div 64)) + 1]
             c4 == B64Alphabet[(b3 % 64) + 1]
         IN  IF Len(b) = 1 THEN <<c1, c2, "=", "=">>
             ELSE IF Len(b) = 2 THEN <<c1, c2, c3, "=">>
             ELSE <<c1, c2, c3, c4>> \o b64encode(SubSeq(b, 4, Len(b)))

RECURSIVE B64Scan(_, _, _, _, _, _)
\* binascii.a2b_base64 (not strict): characters outside the alphabet are
\* skipped, a complete run of padding ends the data, and data that stops
\* inside a group of four is an error (ok = FALSE)
B64Scan(s, i, quad, left, pads, out) ==
    IF i > Len(s)
    THEN (IF quad # 0 THEN [ok |-> FALSE, bytes |-> <<>>] ELSE [ok |-> TRUE, bytes |-> out])
    ELSE IF s[i] = "="
    THEN IF quad >= 2 /\ quad + pads + 1 >= 4 THEN [ok |-> TRUE, bytes |-> out]
         ELSE B64Scan(s, i + 1, quad, left, (IF quad >= 2 THEN pads + 1 ELSE pads), out)
    ELSE IF s[i] \notin DOMAIN B64Value
    THEN B64Scan(s, i + 1, quad, left, pads, out)
    ELSE LET v == B64Value[s[i]]
         IN  CASE quad = 0 -> B64Scan(s, i + 1, 1, v, 0, out)
               [] quad = 1 ->
                      B64Scan(s, i + 1, 2, v % 16, 0, Append(out, left * 4 + (v \div 16)))
               [] quad = 2 ->
                      B64Scan(s, i + 1, 3, v % 4, 0, Append(out, left * 16 + (v \div 4)))
               [] quad = 3 ->
                      B64Scan(s, i + 1, 0, 0, 0, Append(out, left * 64 + v))

\* base64.b64decode(s)
b64decode(s) == B64Scan(s, 1, 0, 0, 0, <<>>)

(***************************************************************************)
(* Text operations of encode_date_to_base64 and extract_year_month.        *)
(***************************************************************************)
RECURSIVE ReplaceSub(_, _, _)
\* s.replace(old, new): every occurrence, from the left
ReplaceSub(s, old, new) ==
    IF Len(s) < Len(old) THEN s
    ELSE IF SubSeq(s, 1, Len(old)) = old
         THEN new \o ReplaceSub(SubSeq(s, Len(old) + 1, Len(s)), old, new)
         ELSE <<s[1]>> \o ReplaceSub(Tail(s), old, new)

StartsWith(s, prefix) == Len(s) >= Len(prefix) /\ SubSeq(s, 1, Len(prefix)) = prefix

\* '-01', 'T00:00:00', '.000', '+00:00', '+02:00', '+01:00', 'MjAy'
DayOne == <<"-", "0", "1">>
Midnight == <<"T", "0", "0", ":", "0", "0", ":", "0", "0">>
Millis == <<".", "0", "0", "0">>
UtcOffset == <<"+", "0", "0", ":", "0", "0">>
SummerOffset == <<"+", "0", "2", ":", "0", "0">>
WinterOffset == <<"+", "0", "1", ":", "0", "0">>
TokenStart == <<"M", "j", "A", "y">>

\* re.match(r'(\d{4}-\d{2})', s): ok and group 1
MatchYearMonth(s) ==
    IF /\ Len(s) >= 7
       /\ AllDigits(SubSeq(s, 1, 4))
       /\ s[5] = "-"
       /\ AllDigits(SubSeq(s, 6, 7))
    THEN [ok |-> TRUE, ym |-> SubSeq(s, 1, 7)]
    ELSE [ok |-> FALSE, ym |-> <<>>]

(***************************************************************************)
(* datetime.fromisoformat.  Every Python 3 reads YYYY-MM-DD, optionally    *)
(* followed by one separator character and HH[:MM[:SS[.fff[fff]]]] and an  *)
(* offset +HH:MM or -HH:MM; from Python 3.11 on the date may also be       *)
(* written YYYYMMDD.  (Week dates, times without colons and other          *)
(* fraction lengths, which 3.11 reads as well, are written by no input.)   *)
(***************************************************************************)
PythonVersions == {"3.9", "3.11"}

IsoFailed == [ok |-> FALSE, aware |-> FALSE, offset |-> 0, dt |-> NoDatetime]

TwoDigitsAt(s, i) == i + 1 <= Len(s) /\ s[i] \in Digits /\ s[i + 1] \in Digits
NumberAt(s, i) == ToInt(SubSeq(s, i, i + 1))

\* HH[:MM[:SS[.fff[fff]]]]
ParseIsoTime(t) ==
    LET n == Len(t)
        shaped == /\ n \in {2, 5, 8, 12, 15}
                  /\ TwoDigitsAt(t, 1)
                  /\ n >= 5 => (t[3] = ":" /\ TwoDigitsAt(t, 4))
                  /\ n >= 8 => (t[6] = ":" /\ TwoDigitsAt(t, 7))
                  /\ n >= 12 => (t[9] = "." /\ AllDigits(SubSeq(t, 10, n)))
        hour == NumberAt(t, 1)
        minute == IF n >= 5 THEN NumberAt(t, 4) ELSE 0
        second == IF n >= 8 THEN NumberAt(t, 7) ELSE 0
    IN  IF shaped /\ hour < 24 /\ minute < 60 /\ second < 60
        THEN [ok |-> TRUE, hour |-> hour, minute |-> minute]
        ELSE [ok |-> FALSE, hour |-> 0, minute |-> 0]

\* the time and offset that follow the separator
ParseIsoTimeAndOffset(date, t) ==
    LET signs == {i \in 1..Len(t) : t[i] \in {"+", "-"}}
        at == IF signs = {} THEN Len(t) + 1 ELSE MinOf(signs)
        time == ParseIsoTime(SubSeq(t, 1, at - 1))
        tz == ParseIsoTime(SubSeq(t, at + 1, Len(t)))
    IN  IF ~time.ok THEN IsoFailed
        ELSE IF signs = {}
             THEN [ok |-> TRUE, aware |-> FALSE, offset |-> 0,
                   dt |-> Datetime(date, time.hour, time.minute)]
        ELSE IF tz.ok /\ Len(t) - at \in {5, 8, 15}
             THEN [ok |-> TRUE, aware |-> TRUE,
                   offset |-> (IF t[at] = "-" THEN -1 ELSE 1) * (tz.hour * 60 + tz.minute),
                   dt |-> Datetime(date, time.hour, time.minute)]
        ELSE IsoFailed

fromisoformat(s, version) ==
    LET extended == /\ Len(s) >= 10
                    /\ AllDigits(SubSeq(s, 1, 4)) /\ s[5] = "-"
                    /\ TwoDigitsAt(s, 6) /\ s[8] = "-"
                    /\ TwoDigitsAt(s, 9)
        basic == /\ version = "3.11"
                 /\ Len(s) >= 8
                 /\ AllDigits(SubSeq(s, 1, 8))
        date == IF extended
                THEN <<ToInt(SubSeq(s, 1, 4)), NumberAt(s, 6), NumberAt(s, 9)>>
                ELSE <<ToInt(SubSeq(s, 1, 4)), NumberAt(s, 5), NumberAt(s, 7)>>
        n == IF extended THEN 10 ELSE 8
    IN  IF ~(extended \/ basic) THEN IsoFailed
        ELSE IF ~( /\ date[1] >= 1
                   /\ date[2] \in 1..12
                   /\ date[3] \in 1..DaysInMonth(date[1], date[2]) ) THEN IsoFailed
        ELSE IF Len(s) = n
             THEN [ok |-> TRUE, aware |-> FALSE, offset |-> 0, dt |-> Datetime(date, 0, 0)]
        ELSE ParseIsoTimeAndOffset(date, SubSeq(s, n + 2, Len(s)))

(***************************************************************************)
(* is_german_summer_time / get_german_timezone_offset.  Europe/Berlin is   *)
(* on summer time from 01:00 UTC on the last Sunday of March to 01:00 UTC  *)
(* on the last Sunday of October.  astimezone() reads a naive datetime as  *)
(* local time of the machine.                                              *)
(***************************************************************************)
TimeZones == {"UTC", "Europe/Berlin"}

LastSunday(y, m) ==
    CHOOSE d \in (DaysInMonth(y, m) - 6)..DaysInMonth(y, m) : DayNumber(<<y, m, d>>) % 7 = 0

\* minutes since the first instant of year 1
MinutesOf(dt) == (DayNumber(dt.date) * 24 + dt.hour) * 60 + dt.minute

\* the wall clock shows dt, hour is the hour of the change on that clock
BetweenLastSundays(y, minutes, hour) ==
    /\ MinutesOf(Datetime(<<y, 3, LastSunday(y, 3)>>, hour, 0)) <= minutes
    /\ minutes < MinutesOf(Datetime(<<y, 10, LastSunday(y, 10)>>, hour, 0))

\* is_german_summer_time(date_obj) on a machine whose zone is tz
is_german_summer_time(parsed, tz) ==
    IF parsed.aware
    THEN BetweenLastSundays(parsed.dt.date[1], MinutesOf(parsed.dt) - parsed.offset, 1)
    ELSE IF tz = "UTC"
         THEN BetweenLastSundays(parsed.dt.date[1], MinutesOf(parsed.dt), 1)
         ELSE BetweenLastSundays(parsed.dt.date[1], MinutesOf(parsed.dt), 3)

\* get_german_timezone_offset always answering '+02:00'
get_german_timezone_offsetSummer(parsed, tz) == SummerOffset

get_german_timezone_offset(parsed, tz) ==
    IF is_german_summer_time(parsed, tz) THEN SummerOffset ELSE WinterOffset

(***************************************************************************)
(* encode_date_to_base64.  The result carries the token and the final      *)
(* value of date_str, the string that was encoded.                     *)
(***************************************************************************)
Encoded(token, canonical) == [raised |-> FALSE, str |-> token, canonical |-> canonical]
EncodeRaised == [raised |-> TRUE, str |-> <<>>, canonical |-> <<>>]

\* "Ensure the date string has milliseconds" as the code does it
AddMillis(s) == IF ~Contains(s, ".") THEN ReplaceSub(s, Midnight, Midnight \o Millis) ELSE s

\* the four shapes tested in turn
YearMonthShape(s) == Len(s) = 7 /\ Count(s, "-") = 1
DateShape(s) == Len(s) = 10 /\ Count(s, "-") = 2
NaiveTimeShape(s) ==
    Len(s) >= 19 /\ Contains(s, "T") /\ ~Contains(s, "+") /\ ~Contains(s, "Z")
OffsetShape(s) == Contains(s, "+") \/ Contains(s, "Z")
HasOffsetMark(s) == Contains(s, "+") \/ Contains(s, "Z")

\* the tail of the function: offset, milliseconds, validation, encoding
EncodeParsed(s, parsed, tz, version) ==
    LET tz_offset == get_german_timezone_offset(parsed, tz)
        with_offset == IF ~HasOffsetMark(s) THEN s \o tz_offset ELSE s
        final == AddMillis(with_offset)
    IN  IF ~fromisoformat(ReplaceSub(final, <<"Z">>, UtcOffset), version).ok
        THEN EncodeRaised
        ELSE Encoded(b64encode(Utf8Encode(final)), final)

\* encode_date_to_base64 trying the year-month prefix when a shape does
\* not parse
encode_date_to_base64Forgiving(text, tz, version) ==
    LET match == MatchYearMonth(text)
        first == match.ym \o DayOne \o Midnight \o Millis
    IN  IF ~match.ok \/ ~fromisoformat(first, version).ok THEN EncodeRaised
        ELSE EncodeParsed(first, fromisoformat(first, version), tz, version)

encode_date_to_base64(text, tz, version) ==
    LET shaped ==
            IF YearMonthShape(text) THEN text \o DayOne \o Midnight \o Millis
            ELSE IF DateShape(text) THEN text \o Midnight \o Millis
            ELSE IF NaiveTimeShape(text) THEN AddMillis(text)
            ELSE text
        for_parsing ==
            IF YearMonthShape(text) \/ DateShape(text) \/ NaiveTimeShape(text)
            THEN shaped
            ELSE AddMillis(ReplaceSub(text, <<"Z">>, UtcOffset))
        match == MatchYearMonth(text)
        first == match.ym \o DayOne \o Midnight \o Millis
    IN  IF \/ YearMonthShape(text) \/ DateShape(text)
           \/ NaiveTimeShape(text) \/ OffsetShape(text)
        THEN IF ~fromisoformat(for_parsing, version).ok THEN EncodeRaised
             ELSE EncodeParsed(shaped, fromisoformat(for_parsing, version), tz, version)
        ELSE IF ~match.ok THEN EncodeRaised
        ELSE IF ~fromisoformat(first, version).ok THEN EncodeRaised
        ELSE EncodeParsed(first, fromisoformat(first, version), tz, version)

(***************************************************************************)
(* extract_year_month and calculate_first_parameter                        *)
(***************************************************************************)
\* date_str.startswith('MjAy') or re.match(r'^[A-Za-z0-9+/=]+$', date_str)
LooksLikeToken(s) ==
    \/ StartsWith(s, TokenStart)
    \/ Len(s) > 0 /\ \A i \in 1..Len(s) : s[i] \in DOMAIN B64Value \cup {"="}

\* base64.b64decode(s).decode('utf-8'); a byte that is no printable ASCII
\* character is shown as "other"
DecodeToken(s) ==
    LET d == b64decode(s)
    IN  IF d.ok /\ Utf8Valid(d.bytes, 1)
        THEN [ok |-> TRUE,
              text |-> [i \in 1..Len(d.bytes) |->
                           IF d.bytes[i] \in 32..126 THEN Chr(d.bytes[i]) ELSE "other"]]
        ELSE [ok |-> FALSE, text |-> <<>>]

\* extract_year_month that reads only the raw input
extract_year_monthRawOnly(text) ==
    IF MatchYearMonth(text).ok THEN Returned(MatchYearMonth(text).ym, 0)
    ELSE Raised

extract_year_month(text) ==
    LET decoded == IF LooksLikeToken(text) THEN DecodeToken(text)
                   ELSE [ok |-> FALSE, text |-> <<>>]
    IN  IF decoded.ok /\ MatchYearMonth(decoded.text).ok
        THEN Returned(MatchYearMonth(decoded.text).ym, 0)
        ELSE IF MatchYearMonth(text).ok THEN Returned(MatchYearMonth(text).ym, 0)
        ELSE Raised

\* calculate_first_parameter counting 28 days for every February
calculate_first_parameterNoLeap(after_date) ==
    LET year_month == extract_year_month(after_date)
        year == ToInt(SubSeq(year_month.str, 1, 4))
        month == ToInt(SubSeq(year_month.str, 6, 7))
        hours == (IF month = 2 THEN 28 ELSE DaysInMonth(year, month)) * 24
    IN  IF year_month.raised THEN Returned(<<>>, 720)
        ELSE IF month \notin 1..12 THEN Returned(<<>>, 720)
        ELSE Returned(<<>>, IF hours < 744 THEN hours ELSE 744)

\* calculate_first_parameter: calendar.monthrange raises IllegalMonthError,
\* a ValueError, for a month outside 1..12
calculate_first_parameter(after_date) ==
    LET year_month == extract_year_month(after_date)
        year == ToInt(SubSeq(year_month.str, 1, 4))
        month == ToInt(SubSeq(year_month.str, 6, 7))
        hours == DaysInMonth(year, month) * 24
    IN  IF year_month.raised THEN Returned(<<>>, 720)
        ELSE IF month \notin 1..12 THEN Returned(<<>>, 720)
        ELSE Returned(<<>>, IF hours < 744 THEN hours ELSE 744)

(***************************************************************************)
(* Inputs of encode_date_to_base64, extract_year_month and                 *)
(* calculate_first_parameter.                                              *)
(***************************************************************************)
DateText(d) == Fmt4(d[1]) \o <<"-">> \o Fmt2(d[2]) \o <<"-">> \o Fmt2(d[3])
TimeText(t) == Fmt2(t[1]) \o <<":">> \o Fmt2(t[2]) \o <<":", "0", "0">>

\* year-months, with months that do not exist
YearMonthTexts ==
    {Fmt4(y) \o <<"-">> \o Fmt2(m) : y \in Years, m \in {0, 1, 2, 5, 6, 10, 12, 13}}

\* dates: first days, the days on which the clocks change, and days and
\* months that do not exist
EncodeDates ==
    UNION {{<<y, 1, 1>>, <<y, 5, 1>>, <<y, 6, 1>>, <<y, 3, LastSunday(y, 3)>>,
            <<y, 10, LastSunday(y, 10)>>, <<y, 5, 32>>, <<y, 13, 1>>} : y \in Years}
EncodeTimes == {<<0, 0>>, <<1, 30>>, <<12, 30>>, <<25, 0>>}
Fractions == {<<>>, Millis, <<".", "1", "2", "3">>}
Offsets == {<<>>, SummerOffset, WinterOffset, <<"Z">>, <<"-", "0", "5", ":", "0", "0">>}

TimestampTexts ==
    {DateText(d) \o <<"T">> \o TimeText(t) \o f \o o :
        d \in EncodeDates, t \in EncodeTimes, f \in Fractions, o \in Offsets}

\* 'invalid-date', '2024-05xx', '2024-06-01T12:30', '2024-06-01 12:30:00',
\* '2024-1-1', '20240601T00:00:00+02:00', '20240601T12:30:00', '20240601',
\* '2024', ''
OtherTexts ==
    { <<"i", "n", "v", "a", "l", "i", "d", "-", "d", "a", "t", "e">>,
      <<"2", "0", "2", "4", "-", "0", "5", "x", "x">>,
      <<"2", "0", "2", "4", "-", "0", "6", "-", "0", "1", "T", "1", "2", ":", "3", "0">>,
      <<"2", "0", "2", "4", "-", "0", "6", "-", "0", "1", " ", "1", "2", ":", "3", "0", ":", "0", "0">>,
      <<"2", "0", "2", "4", "-", "1", "-", "1">>,
      <<"2", "0", "2", "4", "0", "6", "0", "1", "T", "0", "0", ":", "0", "0", ":", "0", "0", "+", "0", "2", ":", "0", "0">>,
      <<"2", "0", "2", "4", "0", "6", "0", "1", "T", "1", "2", ":", "3", "0", ":", "0", "0">>,
      <<"2", "0", "2", "4", "0", "6", "0", "1">>,
      <<"2", "0", "2", "4">>,
      <<>> }

DateStrings ==
    YearMonthTexts \cup {DateText(d) : d \in EncodeDates} \cup TimestampTexts
        \cup OtherTexts

\* tokens: encodings of year-months, of canonical strings and of text that
\* is no date; a token without its padding, a token followed by other
\* characters, bytes that are not UTF-8
TokenTexts ==
    YearMonthTexts
        \cup {ym \o DayOne \o Midnight \o Millis \o SummerOffset : ym \in YearMonthTexts}
        \cup {<<"i", "n", "v", "a", "l", "i", "d", "-", "d", "a", "t", "e">>, <<"2", "0", "2", "4", "0", "6", "0", "1">>}
Tokens == {b64encode(Utf8Encode(t)) : t \in TokenTexts}
BrokenTokens ==
    {b64encodeNoPadding(Utf8Encode(t)) : t \in YearMonthTexts}
        \cup {b64encode(Utf8Encode(t)) \o <<"-", "x">> : t \in YearMonthTexts}
        \cup {b64encode(Utf8Encode(t) \o <<255>>) : t \in YearMonthTexts}
        \cup {b64encode(<<255>>), b64encode(<<195, 164>>)}

ExtractInputs == DateStrings \cup Tokens \cup BrokenTokens

(***************************************************************************)
(* The calls of the three functions.                                       *)
(***************************************************************************)
\* encode_date_to_base64(arg) on a machine with zone tz and Python version
CallEncodeDateToBase64 ==
    /\ tpc = "ready"
    /\ \E text \in DateStrings, tz \in TimeZones, version \in PythonVersions :
          LET r == encode_date_to_base64(text, tz, version)
          IN  /\ arg' = text
              /\ system_tz' = tz
              /\ python_version' = version
              /\ date_str' = r.canonical
              /\ ret' = IF r.raised THEN Raised ELSE Returned(r.str, 0)
    /\ tpc' = "encode_done"
    /\ UNCHANGED <<validator, process, now, date_range, start_date, end_date, current_date,
                   month_range>>

\* extract_year_month(token) for the token just returned
CallExtractOfEncoded ==
    /\ tpc = "encode_done"
    /\ ~ret.raised
    /\ ret' = extract_year_month(ret.str)
    /\ tpc' = "roundtrip_done"
    /\ UNCHANGED <<validator, process, system_tz, python_version, now, date_range, start_date,
                   end_date, current_date, month_range, arg, date_str>>

\* extract_year_month(arg)
CallExtractYearMonth ==
    /\ tpc = "ready"
    /\ \E text \in ExtractInputs :
          /\ arg' = text
          /\ ret' = extract_year_month(text)
    /\ tpc' = "extract_done"
    /\ UNCHANGED <<validator, process, system_tz, python_version, now, date_range, start_date,
                   end_date, current_date, month_range, date_str>>

\* calculate_first_parameter(arg)
CallCalculateFirstParameter ==
    /\ tpc = "ready"
    /\ \E text \in ExtractInputs :
          /\ arg' = text
          /\ ret' = calculate_first_parameter(text)
    /\ tpc' = "calculate_done"
    /\ UNCHANGED <<validator, process, system_tz, python_version, now, date_range, start_date,
                   end_date, current_date, month_range, date_str>>

(***************************************************************************)
(* Claims about calculate_first_parameter, encode_date_to_base64 and       *)
(* extract_year_month.                                                     *)
(***************************************************************************)
CalculateDone == tpc = "calculate_done"

\* the hours of a month by the Gregorian calendar, written out
HoursOfMonth(year, month) ==
    LET leap == year % 4 = 0 /\ (year % 100 # 0 \/ year % 400 = 0)
        days == CASE month \in {1, 3, 5, 7, 8, 10, 12} -> 31
                  [] month \in {4, 6, 9, 11} -> 30
                  [] month = 2 -> (IF leap THEN 29 ELSE 28)
    IN  days * 24

\* C15: when a year and a month 1..12 can be extracted from the input,
\* calculate_first_parameter returns min(days of that month * 24, 744),
\* one of 672, 696, 720, 744; when no valid year-month can be extracted it
\* returns 720; it never raises.
C15_FirstParameter ==
    CalculateDone =>
        LET year_month == extract_year_month(arg)
            year == ToInt(SubSeq(year_month.str, 1, 4))
            month == ToInt(SubSeq(year_month.str, 6, 7))
        IN  /\ ~ret.raised
            /\ IF ~year_month.raised /\ month \in 1..12
               THEN /\ ret.n = (IF HoursOfMonth(year, month) < 744
                                THEN HoursOfMonth(year, month) ELSE 744)
                    /\ ret.n \in {672, 696, 720, 744}
               ELSE ret.n = 720

\* the token of a February in a leap year gives 29 * 24 hours
C15_Witness ==
    /\ CalculateDone
    /\ arg = b64encode(Utf8Encode(<<"2", "0", "2", "4", "-", "0", "2">>))
    /\ ret.n = 696

EncodeDone == tpc = "encode_done"
RoundTripDone == tpc = "roundtrip_done"

\* the first seven characters of s
LeadingYearMonth(s) == SubSeq(s, 1, IF Len(s) < 7 THEN Len(s) ELSE 7)

\* C16: for every date string that encode_date_to_base64 accepts,
\* extract_year_month of the returned token is the leading YYYY-MM of the
\* date string, and decoding the token with base64 gives back exactly the
\* string that was encoded.
C16_RoundTrip ==
    /\ (EncodeDone /\ ~ret.raised) =>
           /\ b64decode(ret.str).ok
           /\ b64decode(ret.str).bytes = Utf8Encode(date_str)
    /\ RoundTripDone =>
           /\ ~ret.raised
           /\ ret.str = LeadingYearMonth(arg)

\* the round trip for the date strings that begin with YYYY-MM
RoundTripOfYearMonthInputs ==
    (RoundTripDone /\ MatchYearMonth(arg).ok) =>
        /\ ~ret.raised
        /\ ret.str = LeadingYearMonth(arg)

\* a date string without hyphens is accepted from Python 3.11 on
RoundTripFails ==
    /\ RoundTripDone
    /\ python_version = "3.11"
    /\ ~MatchYearMonth(arg).ok
    /\ ret.raised

\* s ends with Z or with +HH:MM
CarriesOffset(s) ==
    \/ Len(s) >= 1 /\ s[Len(s)] = "Z"
    \/ /\ Len(s) >= 6
       /\ s[Len(s) - 5] = "+"
       /\ TwoDigitsAt(s, Len(s) - 4)
       /\ s[Len(s) - 2] = ":"
       /\ TwoDigitsAt(s, Len(s) - 1)

OffsetOf(s) == IF s[Len(s)] = "Z" THEN <<"Z">> ELSE SubSeq(s, Len(s) - 5, Len(s))

EndsWith(s, suffix) ==
    Len(s) >= Len(suffix) /\ SubSeq(s, Len(s) - Len(suffix) + 1, Len(s)) = suffix

\* the date and the time of day written at the start of YYYY-MM-DDTHH:MM...
CivilTimeOf(s) ==
    Datetime(<<ToInt(SubSeq(s, 1, 4)), NumberAt(s, 6), NumberAt(s, 9)>>,
             NumberAt(s, 12), NumberAt(s, 15))

\* German clocks show summer time from the last Sunday of March, when they
\* jump from 02:00 to 03:00, until 03:00 on the last Sunday of October
InGermanSummerTime(dt) ==
    LET y == dt.date[1]
    IN  /\ MinutesOf(Datetime(<<y, 3, LastSunday(y, 3)>>, 3, 0)) <= MinutesOf(dt)
        /\ MinutesOf(dt) < MinutesOf(Datetime(<<y, 10, LastSunday(y, 10)>>, 3, 0))

\* C17: when the input carries no offset, the encoded string ends with
\* '+02:00' if the resolved date is in German summer time and with '+01:00'
\* otherwise; when the input carries '+HH:MM' or 'Z', that offset is kept;
\* every encoded string has an explicit offset.
C17_GermanOffset ==
    (EncodeDone /\ ~ret.raised) =>
        /\ CarriesOffset(date_str)
        /\ CarriesOffset(arg) => OffsetOf(date_str) = OffsetOf(arg)
        /\ ~CarriesOffset(arg) =>
               IF InGermanSummerTime(CivilTimeOf(date_str))
               THEN EndsWith(date_str, SummerOffset)
               ELSE EndsWith(date_str, WinterOffset)

\* the offsets on a machine whose zone is Europe/Berlin
GermanOffsetInBerlin ==
    system_tz = "Europe/Berlin" => C17_GermanOffset

\* 01:30 on the morning the clocks go forward, encoded as summer time
GermanOffsetFails ==
    /\ EncodeDone
    /\ system_tz = "UTC"
    /\ arg = DateText(<<2024, 3, 31>>) \o <<"T">> \o TimeText(<<1, 30>>)
    /\ ~ret.raised
    /\ EndsWith(date_str, SummerOffset)

\* YYYY-MM-DDTHH:MM:SS at the start of s, and nothing after the seconds
\* that begins a fraction
TimeWithoutFraction(s) ==
    /\ Len(s) >= 19
    /\ s[11] = "T"
    /\ ~Contains(s, ".")

\* C18: every encoded string has a day, a time of day and fractional
\* seconds: a missing day becomes 01, a missing time 00:00:00.000, and
\* fractional seconds missing after a time become .000.
C18_Defaults ==
    (EncodeDone /\ ~ret.raised) =>
        /\ Contains(date_str, "T")
        /\ Contains(date_str, ".")
        /\ YearMonthShape(arg) => StartsWith(date_str, arg \o DayOne \o Midnight \o Millis)
        /\ DateShape(arg) => StartsWith(date_str, arg \o Midnight \o Millis)
        /\ TimeWithoutFraction(arg) => StartsWith(date_str, SubSeq(arg, 1, 19) \o Millis)

\* the defaults for inputs whose time, if they have one, is midnight
DefaultsAtMidnight ==
    (TimeWithoutFraction(arg) => SubSeq(arg, 11, 19) = Midnight) => C18_Defaults

\* half past twelve is encoded without fractional seconds
FractionMissing ==
    /\ EncodeDone
    /\ arg = DateText(<<2024, 6, 1>>) \o <<"T">> \o TimeText(<<12, 30>>) \o SummerOffset
    /\ ~ret.raised
    /\ date_str = arg

\* one of the shapes that encode_date_to_base64 tests for
AcceptedShape(s) ==
    YearMonthShape(s) \/ DateShape(s) \/ NaiveTimeShape(s) \/ OffsetShape(s)

\* s begins with a four-digit year, a hyphen and a month 01..12
BeginsWithValidYearMonth(s) ==
    /\ MatchYearMonth(s).ok
    /\ ToInt(SubSeq(s, 1, 4)) >= 1
    /\ NumberAt(s, 6) \in 1..12

\* C19: encode_date_to_base64 fails only when the input has none of the
\* accepted shapes and no YYYY-MM prefix; an input that begins with a year,
\* a hyphen and a valid month is encoded in its own shape or as the first of
\* that month, and never raises.
C19_FailsOnlyWithoutPrefix ==
    EncodeDone =>
        /\ ret.raised => (~AcceptedShape(arg) /\ ~MatchYearMonth(arg).ok)
        /\ BeginsWithValidYearMonth(arg) =>
               /\ ~ret.raised
               /\ \/ StartsWith(date_str, SubSeq(arg, 1, 7))
                  \/ StartsWith(date_str, SubSeq(arg, 1, 7) \o DayOne \o Midnight \o Millis)

\* the fallback for inputs that have none of the shapes
FallbackWithoutShape ==
    (EncodeDone /\ ~AcceptedShape(arg)) =>
        /\ BeginsWithValidYearMonth(arg) =>
               /\ ~ret.raised
               /\ StartsWith(date_str, SubSeq(arg, 1, 7) \o DayOne \o Midnight \o Millis)
        /\ ~MatchYearMonth(arg).ok => ret.raised

\* a date with a day that does not exist raises
ShapedInputRaises ==
    /\ EncodeDone
    /\ arg = <<"2", "0", "2", "4", "-", "0", "5", "-", "3", "2">>
    /\ ret.raised

ExtractDone == tpc = "extract_done"

\* C20: extract_year_month returns the YYYY-MM prefix of the decoded text
\* when the input looks like a token and decodes to text that starts with
\* YYYY-MM; otherwise it returns the YYYY-MM prefix of the raw input; it
\* raises only when neither the decoded text nor the raw input starts with
\* four digits, a hyphen and two digits.
C20_DecodedThenRaw ==
    ExtractDone =>
        LET decoded == IF LooksLikeToken(arg) THEN DecodeToken(arg)
                       ELSE [ok |-> FALSE, text |-> <<>>]
            from_decoded == decoded.ok /\ MatchYearMonth(decoded.text).ok
            from_raw == MatchYearMonth(arg).ok
        IN  /\ from_decoded => ret = Returned(SubSeq(decoded.text, 1, 7), 0)
            /\ (~from_decoded /\ from_raw) => ret = Returned(SubSeq(arg, 1, 7), 0)
            /\ ret.raised <=> (~from_decoded /\ ~from_raw)
            /\ \A t \in TokenTexts :
                   arg = b64encode(Utf8Encode(t)) =>
                       IF MatchYearMonth(t).ok THEN ret = Returned(SubSeq(t, 1, 7), 0)
                       ELSE ret.raised

\* the token of a canonical string gives its year and month
C20_Witness ==
    /\ ExtractDone
    /\ arg = b64encode(Utf8Encode(<<"2", "0", "2", "4", "-", "0", "5">> \o DayOne
                                      \o Midnight \o Millis \o SummerOffset))
    /\ ret = Returned(<<"2", "0", "2", "4", "-", "0", "5">>, 0)

\* C21: every value that extract_year_month returns is a year and a month,
\* the month being one of 01..12.
C21_ReturnsMonthKey ==
    ((ExtractDone \/ RoundTripDone) /\ ~ret.raised) =>
        /\ Len(ret.str) = 7
        /\ AllDigits(SubSeq(ret.str, 1, 4))
        /\ ret.str[5] = "-"
        /\ AllDigits(SubSeq(ret.str, 6, 7))
        /\ ToInt(SubSeq(ret.str, 6, 7)) \in 1..12

\* the shape of the returned value, whatever the month
ReturnsYearMonthShape ==
    ((ExtractDone \/ RoundTripDone) /\ ~ret.raised) =>
        /\ Len(ret.str) = 7
        /\ AllDigits(SubSeq(ret.str, 1, 4))
        /\ ret.str[5] = "-"
        /\ AllDigits(SubSeq(ret.str, 6, 7))

\* a thirteenth month is returned as it is written
MonthThirteenReturned ==
    /\ ExtractDone
    /\ arg = <<"2", "0", "2", "4", "-", "1", "3">>
    /\ ret = Returned(arg, 0)

(***************************************************************************)
(* process_date_range: parse the range, list its months, then for each     *)
(* month encode it and fetch and save its data.  What the Tibber API and   *)
(* the file system answer to a fetch is not decided by the program.        *)
(***************************************************************************)
RECURSIVE MonthsFrom(_, _)
\* generate_month_range(start_date, end_date): the loop of GenerateLoop
\* run to its end, for the datetimes that parse_date_range returns
MonthsFrom(current, end) ==
    IF ~DtLeq(current, end) THEN <<>>
    ELSE <<StrftimeYm(current)>> \o MonthsFrom(NextMonthOf(current).dt, end)

\* f"data/input/{month}-Verbrauch.json"
OutputFile(month) ==
    <<"d", "a", "t", "a", "/", "i", "n", "p", "u", "t", "/">> \o month
        \o <<"-", "V", "e", "r", "b", "r", "a", "u", "c", "h", ".", "j", "s", "o", "n">>

\* get_consumption_data(after_date, None): the 'first' of the query
FirstFor(after_date) ==
    IF LooksLikeToken(after_date)
    THEN (IF DecodeToken(after_date).ok
          THEN calculate_first_parameter(DecodeToken(after_date).text).n
          ELSE 720)
    ELSE calculate_first_parameter(after_date).n

\* a loop that stops at the first month that fails
AfterMonthErrorStop(idx, count) == count + 1

\* "except Exception ... continue": the loop goes on with the next month
AfterMonthError(idx, count) == idx + 1

\* the ranges handed to process_date_range: start and end as year and month
ProcessRanges ==
    { <<<<2024, 1>>, <<2024, 3>>>>, <<<<2024, 3>>, <<2024, 6>>>>,
      <<<<2024, 12>>, <<2025, 2>>>>, <<<<2024, 5>>, <<2024, 5>>>>,
      <<<<2024, 6>>, <<2024, 5>>>>, <<<<2024, 5>>, <<2024, 13>>>> }

RangeText(r) ==
    JoinTokens(Fmt4(r[1][1]) \o <<"-">> \o Fmt2(r[1][2]),
               Fmt4(r[2][1]) \o <<"-">> \o Fmt2(r[2][2]), "space")

\* the months a range can hold, and for each of them what
\* encode_date_to_base64(month) gives on a machine and what
\* get_consumption_data then asks for
ProcessMonths == {YearMonthOf(k) : k \in (2024 * 12)..(LastYear * 12 + 11)}

EncodedMonth ==
    [month \in ProcessMonths, tz \in TimeZones, version \in PythonVersions |->
        encode_date_to_base64(month, tz, version)]

FirstForMonth ==
    [month \in ProcessMonths, tz \in TimeZones, version \in PythonVersions |->
        IF EncodedMonth[month, tz, version].raised THEN 0
        ELSE FirstFor(EncodedMonth[month, tz, version].str)]

\* process_date_range(access_token, date_range): parse_date_range and
\* generate_month_range; a range that does not parse is raised
CallProcessDateRange ==
    /\ tpc = "ready"
    /\ \E range \in ProcessRanges, current \in Nows, tz \in TimeZones,
          version \in PythonVersions :
          LET r == parse_date_range(RangeText(range), current)
          IN  /\ date_range' = RangeText(range)
              /\ now' = current
              /\ system_tz' = tz
              /\ python_version' = version
              /\ start_date' = r.start
              /\ end_date' = r.end
              /\ IF r.raised
                 THEN /\ ret' = Raised
                      /\ month_range' = <<>>
                      /\ month_idx' = 0
                      /\ tpc' = "process_done"
                 ELSE /\ ret' = NoRet
                      /\ month_range' = MonthsFrom(r.start, r.end)
                      /\ month_idx' = 1
                      /\ tpc' = "process_loop"
    /\ encoded_date' = <<>>
    /\ encode_calls' = <<>>
    /\ fetch_calls' = <<>>
    /\ UNCHANGED <<validator, current_date, arg, date_str>>

\* encoded_date = encode_date_to_base64(month)
ProcessEncode ==
    /\ tpc = "process_loop"
    /\ month_idx <= Len(month_range)
    /\ LET month == month_range[month_idx]
           r == EncodedMonth[month, system_tz, python_version]
       IN  /\ encode_calls' = Append(encode_calls, month)
           /\ IF r.raised
              THEN /\ month_idx' = AfterMonthError(month_idx, Len(month_range))
                   /\ UNCHANGED <<tpc, encoded_date>>
              ELSE /\ encoded_date' = r.str
                   /\ tpc' = "process_fetch"
                   /\ UNCHANGED month_idx
    /\ UNCHANGED <<validator, system_tz, python_version, now, date_range, start_date,
                   end_date, current_date, month_range, arg, date_str, ret, fetch_calls>>

\* fetch_and_save_consumption(access_token, output_file, encoded_date, first):
\* the data is saved, or the call raises
ProcessFetch ==
    /\ tpc = "process_fetch"
    /\ \E saved \in BOOLEAN :
          /\ fetch_calls' = Append(fetch_calls,
                 [output_file |-> OutputFile(month_range[month_idx]),
                  after_date |-> encoded_date,
                  first |-> FirstForMonth[month_range[month_idx], system_tz,
                                          python_version],
                  saved |-> saved])
          /\ month_idx' = IF saved THEN month_idx + 1
                          ELSE AfterMonthError(month_idx, Len(month_range))
    /\ tpc' = "process_loop"
    /\ UNCHANGED <<validator, system_tz, python_version, now, date_range, start_date,
                   end_date, current_date, month_range, arg, date_str, ret,
                   encoded_date, encode_calls>>

\* the loop over months is over: process_date_range returns
ProcessReturn ==
    /\ tpc = "process_loop"
    /\ month_idx > Len(month_range)
    /\ tpc' = "process_done"
    /\ ret' = Returned(<<>>, 0)
    /\ UNCHANGED <<validator, system_tz, python_version, now, date_range, start_date,
                   end_date, current_date, month_range, arg, date_str, process>>

InProcessLoop == tpc \in {"process_loop", "process_fetch"}
ProcessDone == tpc = "process_done"

\* the months whose attempt is over
MonthsAttempted == IF tpc = "process_fetch" THEN month_idx ELSE month_idx - 1

\* the text that encode_date_to_base64 encodes for a year-month in winter
\* or summer
FirstInstantOf(month, offset) == month \o DayOne \o Midnight \o Millis \o offset

\* what process_date_range has done so far: encode was called for the first
\* months of the range, once each and in their order, and each encode but
\* one under way was followed by a fetch for the file of that month
AttemptsInOrder ==
    (InProcessLoop \/ (ProcessDone /\ ~ret.raised)) =>
        /\ month_range = MonthsBetween(start_date, end_date)
        /\ Len(month_range) >= 1
        /\ \A i \in 1..(Len(month_range) - 1) :
               MonthNumberOfText(month_range[i]) + 1 = MonthNumberOfText(month_range[i + 1])
        /\ Len(encode_calls) = (IF ProcessDone THEN Len(month_range)
                                ELSE IF tpc = "process_fetch" THEN month_idx
                                ELSE month_idx - 1)
        /\ encode_calls = SubSeq(month_range, 1, Len(encode_calls))
        /\ Len(fetch_calls) = (IF tpc = "process_fetch" THEN Len(encode_calls) - 1
                               ELSE Len(encode_calls))
        /\ \A i \in 1..Len(fetch_calls) :
               /\ fetch_calls[i].output_file = OutputFile(month_range[i])
               /\ b64decode(fetch_calls[i].after_date).bytes \in
                      {Utf8Encode(FirstInstantOf(month_range[i], o)) :
                          o \in {SummerOffset, WinterOffset}}

\* a range that does not parse is raised and nothing is encoded or fetched;
\* nothing else is raised
OnlyParseRaises ==
    ProcessDone =>
        /\ ret.raised <=> parse_date_range(date_range, now).raised
        /\ ret.raised => (encode_calls = <<>> /\ fetch_calls = <<>>)

\* C22: process_date_range attempts every month of the parsed range exactly
\* once, in ascending order, each as encode followed by fetch-and-save to
\* data/input/<YYYY-MM>-Verbrauch.json; a month that fails neither stops nor
\* skips a later month and is not raised; a range that does not parse is
\* raised and no month is fetched.
C22_EveryMonthAttempted ==
    /\ [](AttemptsInOrder /\ OnlyParseRaises)
    /\ (InProcessLoop ~> ProcessDone)

\* three months, the fetch of the first failed, all three attempted
C22_Witness ==
    /\ ProcessDone
    /\ ~ret.raised
    /\ Len(month_range) = 3
    /\ Len(fetch_calls) = 3
    /\ ~fetch_calls[1].saved
    /\ fetch_calls[3].saved

(***************************************************************************)
(* Claims about validate_file_content and validate_all_files, continued.   *)
(***************************************************************************)
\* the state of one row scan that begins with nothing seen
FreshScan ==
    [errors |-> <<>>, has_data_rows |-> FALSE, seen_timestamps |-> {},
     hours_by_date |-> <<>>, timestamp_line_numbers |-> EmptyDict]

RECURSIVE ScanAlone(_, _, _)
\* the rows 1..k of the file scanned on their own, one after the other
ScanAlone(f, cfg, k) ==
    IF k = 0 THEN FreshScan
    ELSE LET st == ScanAlone(f, cfg, k - 1)
             row == f.data[k]
             parsed == Strptime(row[1])
             tln == AddLine(st.timestamp_line_numbers, parsed.ts, k + 1)
         IN  IF Len(row) = 0 THEN st
             ELSE IF parsed.ok
             THEN [errors |-> st.errors \o DuplicateErrors(tln, parsed.ts, k + 1, row[1])
                                  \o PowerErrors(row, k + 1, cfg),
                   has_data_rows |-> TRUE,
                   seen_timestamps |-> st.seen_timestamps \cup {parsed.ts},
                   hours_by_date |-> AddHour(st.hours_by_date, parsed.ts.date, parsed.ts.hour),
                   timestamp_line_numbers |-> tln]
             ELSE [st EXCEPT !.errors = @ \o DatetimeErrors(row, k + 1, cfg),
                             !.has_data_rows = TRUE]

\* the content report of a file validated on its own
ContentReportAlone(f, cfg) ==
    LET st == ScanAlone(f, cfg, Len(f.data))
    IN  ReturnValue(
            CASE f.kind = "nohdr" -> <<ErrValidatingContent>>
              [] f.kind = "trunc" -> Append(st.errors, ErrValidatingContent)
              [] f.kind = "ok" ->
                     st.errors \o OnlyHeaderErrors(st.has_data_rows)
                         \o MissingHoursErrors(st.hours_by_date, st.timestamp_line_numbers, 1)
                         \o GapErrors(st.seen_timestamps, st.timestamp_line_numbers))

\* the report of validate_all_files for a file validated on its own
ReportAlone(f, cfg) ==
    CombineResults(validate_file_structure(f), ContentReportAlone(f, cfg))

RowNumbersOn(rt, d) == {k + 1 : k \in {j \in DOMAIN rt : rt[j].date = d}}

\* C24: the row span of a 'Missing hours' error for a date runs from the
\* smallest to the largest row number among all rows whose timestamp is on
\* that date, so its first number is not larger than its second.
C24_MissingHoursSpan ==
    ScanCompleted =>
        LET rt == RowTimestamps(CurFile)
            errs == content_result.errors
        IN  \A i \in 1..Len(errs) :
                errs[i].kind = "missing_hours" =>
                    /\ errs[i].span
                    /\ RowNumbersOn(rt, errs[i].date) # {}
                    /\ errs[i].lo = MinOf(RowNumbersOn(rt, errs[i].date))
                    /\ errs[i].hi = MaxOf(RowNumbersOn(rt, errs[i].date))
                    /\ errs[i].lo <= errs[i].hi

\* the last row of a date repeats a timestamp and still ends the span
C24_Witness ==
    /\ ScanCompleted
    /\ CurFile.data = TripleRun
    /\ \E e \in Range(content_result.errors) :
           e.kind = "missing_hours" /\ e.lo = 2 /\ e.hi = 4

\* the span of every gap error: from the last row of the earlier date to
\* the first row of the later date
GapSpanRows ==
    ScanCompleted =>
        LET rt == RowTimestamps(CurFile)
            errs == content_result.errors
        IN  \A i \in 1..Len(errs) :
                errs[i].kind = "gap" =>
                    /\ errs[i].span
                    /\ DayNumber(errs[i].date) < DayNumber(errs[i].date2)
                    /\ errs[i].lo = MaxOf(RowNumbersOn(rt, errs[i].date))
                    /\ errs[i].hi = MinOf(RowNumbersOn(rt, errs[i].date2))

\* C25 as stated: the span of a gap error between the sorted dates d1 < d2
\* runs from the last row of d1 to the first row of d2, so its first number
\* is smaller than its second.
C25_GapSpanAscending ==
    /\ GapSpanRows
    /\ ScanCompleted =>
           \A i \in 1..Len(content_result.errors) :
               content_result.errors[i].kind = "gap" =>
                   content_result.errors[i].lo < content_result.errors[i].hi

\* C25 amended: the span of a gap error between the sorted dates d1 < d2
\* runs from the last row of d1 to the first row of d2; its first number is
\* smaller than its second exactly when every row of d1 stands before every
\* row of d2 in the file, and larger otherwise.
C25_GapSpan ==
    /\ GapSpanRows
    /\ ScanCompleted =>
           LET rt == RowTimestamps(CurFile)
               errs == content_result.errors
           IN  \A i \in 1..Len(errs) :
                   errs[i].kind = "gap" =>
                       /\ errs[i].lo # errs[i].hi
                       /\ (errs[i].lo < errs[i].hi) <=>
                              \A a \in RowNumbersOn(rt, errs[i].date),
                                 b \in RowNumbersOn(rt, errs[i].date2) : a < b

\* two gaps in one file: one between rows that follow each other, one
\* whose later date stands first in the file
C25_Witness ==
    /\ ScanCompleted
    /\ \E e \in Range(content_result.errors) :
           e.kind = "gap" /\ e.lo > e.hi
    /\ \E e \in Range(content_result.errors) :
           e.kind = "gap" /\ e.lo < e.hi

\* C26: when a read failure aborts validate_file_content, at the header or
\* at any row of the scan, the returned error list consists of a single
\* message, the wrapped 'Error validating content' error.
C26_SingleMessage ==
    (ContentReturned /\ ReadFails(CurFile)) =>
        content_result.errors = <<ErrValidatingContent>>

\* what is returned after a read failure: the wrapped error, once, as the
\* last message, after the errors of the rows read before the failure
WrappedErrorLast ==
    (ContentReturned /\ ReadFails(CurFile)) =>
        LET errs == content_result.errors
        IN  /\ Len(errs) >= 1
            /\ errs[Len(errs)] = ErrValidatingContent
            /\ \A i \in 1..(Len(errs) - 1) :
                   errs[i].kind \in {"invalid_datetime", "duplicate", "invalid_power"}
            /\ CurFile.kind = "nohdr" => Len(errs) = 1

\* a row that does not parse, then the failure: two messages
TwoMessagesAfterFailure ==
    /\ ContentReturned
    /\ CurFile.kind = "trunc"
    /\ Len(content_result.errors) = 2
    /\ content_result.errors[1].kind = "invalid_datetime"

StructureKinds ==
    {"header_insufficient", "header_mismatch", "row_insufficient", "error_reading_file"}
RowKinds == {"invalid_datetime", "duplicate", "invalid_power"}

\* the place of a content error in the list: row errors, the only-header
\* error, missing hours, gaps, the wrapped error of a read failure
Stage(e) ==
    CASE e.kind \in RowKinds -> 1
      [] e.kind = "only_header" -> 2
      [] e.kind = "missing_hours" -> 3
      [] e.kind = "gap" -> 4
      [] e.kind = "error_validating_content" -> 5

\* C27: the content error list follows scan order: the errors of the rows
\* come in ascending row number and before any missing-hours error;
\* missing-hours errors come in the order in which their dates first occur
\* in the file; gap errors come last, in ascending date order; in
\* validate_all_files all structural errors of a file precede all its
\* content errors.
C27_ErrorOrder ==
    /\ ContentReturned =>
           LET errs == content_result.errors
               rt == RowTimestamps(CurFile)
           IN  \A i \in 1..Len(errs), j \in 1..Len(errs) :
                   i < j =>
                       /\ Stage(errs[i]) <= Stage(errs[j])
                       /\ (Stage(errs[i]) = 1 /\ Stage(errs[j]) = 1) =>
                              errs[i].row <= errs[j].row
                       /\ (Stage(errs[i]) = 3 /\ Stage(errs[j]) = 3) =>
                              MinOf(RowNumbersOn(rt, errs[i].date))
                                  < MinOf(RowNumbersOn(rt, errs[j].date))
                       /\ (Stage(errs[i]) = 4 /\ Stage(errs[j]) = 4) =>
                              DayNumber(errs[i].date) < DayNumber(errs[j].date)
    /\ pc = "done" =>
           \A k \in 1..Len(results) :
               LET errs == results[k].errors
               IN  \A i \in 1..Len(errs), j \in 1..Len(errs) :
                       (i < j /\ errs[j].kind \in StructureKinds) =>
                           errs[i].kind \in StructureKinds

\* a short header, two rows with a bad power value on two dates that are
\* not adjacent: a structural error, then row errors, missing hours, a gap
C27_Witness ==
    /\ pc = "done"
    /\ Len(results) = 1
    /\ LET errs == results[1].errors
       IN  /\ Len(errs) = 6
           /\ errs[1].kind = "header_insufficient"
           /\ errs[2].kind = "invalid_power" /\ errs[2].row = 2
           /\ errs[3].kind = "invalid_power" /\ errs[3].row = 3
           /\ errs[4].kind = "missing_hours" /\ errs[5].kind = "missing_hours"
           /\ DayNumber(errs[4].date) > DayNumber(errs[5].date)
           /\ errs[6].kind = "gap"

\* rows whose column 1 does not parse
UnparsableRows(f) == NonBlankRows(f) \ ParsedRows(f)
\* occurrences of a timestamp after its first one
RepeatedRows(rt) == {k \in DOMAIN rt : \E j \in DOMAIN rt : j < k /\ rt[j] = rt[k]}
\* rows whose column 1 parses and whose power value is not a number
BadPowerRows(f, sep) == {k \in ParsedRows(f) : NotANumber(f.data[k], sep)}
\* observed dates on which not all of the hours 0..23 were seen
IncompleteDates(rt) == {d \in ObservedDates(rt) : ObservedHours(rt, d) # 0..23}

\* C28: content validation accumulates and never stops at the first defect:
\* when reading does not fail, the number of content errors is the number of
\* rows with an unparsable datetime, plus the occurrences of a timestamp
\* after its first, plus the rows with a parsable datetime and an invalid
\* power value, plus the observed dates with missing hours, plus the pairs
\* of consecutive dates that are not adjacent, plus one if there is no
\* non-blank data row; a file with a duplicate, a bad date, a bad power
\* value and an incomplete day reports at least four errors.
C28_ErrorCount ==
    ScanCompleted =>
        LET errs == content_result.errors
            rt == RowTimestamps(CurFile)
            unparsable == Cardinality(UnparsableRows(CurFile))
            repeated == Cardinality(RepeatedRows(rt))
            badpower == Cardinality(BadPowerRows(CurFile, config.decimal_separator))
            incomplete == Cardinality(IncompleteDates(rt))
            apart == Cardinality(NonAdjacentDates(ObservedDates(rt)))
            nodata == IF NonBlankRows(CurFile) = {} THEN 1 ELSE 0
        IN  /\ Len(errs) = unparsable + repeated + badpower + incomplete + apart + nodata
            /\ Len(ErrorsOfKind(errs, "invalid_datetime")) = unparsable
            /\ Len(ErrorsOfKind(errs, "duplicate")) = repeated
            /\ Len(ErrorsOfKind(errs, "invalid_power")) = badpower
            /\ Len(ErrorsOfKind(errs, "missing_hours")) = incomplete
            /\ Len(ErrorsOfKind(errs, "gap")) = apart
            /\ Len(ErrorsOfKind(errs, "only_header")) = nodata
            /\ (unparsable > 0 /\ repeated > 0 /\ badpower > 0 /\ incomplete > 0) =>
                   Len(errs) >= 4

\* the file with several issues followed by rows of two further dates: a
\* duplicate, a bad date, a bad power value, three incomplete days and a gap
C28_Witness ==
    /\ ScanCompleted
    /\ Len(CurFile.data) > Len(MultipleIssues)
    /\ SubSeq(CurFile.data, 1, Len(MultipleIssues)) = MultipleIssues
    /\ Len(ErrorsOfKind(content_result.errors, "duplicate")) = 1
    /\ Len(ErrorsOfKind(content_result.errors, "invalid_datetime")) = 1
    /\ Len(ErrorsOfKind(content_result.errors, "invalid_power")) = 1
    /\ Len(ErrorsOfKind(content_result.errors, "missing_hours")) >= 2
    /\ Len(ErrorsOfKind(content_result.errors, "gap")) = 1
    /\ Len(content_result.errors) >= 6

\* the row loop of validate_file_content is running or has ended
InRowScan == pc = "scan" \/ (pc = "combine" /\ CurFile.kind # "nohdr")

\* C29: at every point of the row scan the set of seen timestamps is the key
\* set of the map from timestamps to row numbers, every list of row numbers
\* is non-empty and strictly ascending, and the dates that have an hour set
\* are the dates of the seen timestamps; hence every missing-hours error
\* carries a row span, and the variant without a span is never produced.
C29_ScanInvariants ==
    /\ InRowScan =>
           /\ seen_timestamps = DOMAIN timestamp_line_numbers
           /\ \A ts \in DOMAIN timestamp_line_numbers :
                  /\ Len(timestamp_line_numbers[ts]) > 0
                  /\ StrictlyAscending(timestamp_line_numbers[ts])
           /\ {hours_by_date[k].date : k \in 1..Len(hours_by_date)}
                  = {ts.date : ts \in seen_timestamps}
           /\ \A k \in 1..Len(hours_by_date) : hours_by_date[k].hours # {}
    /\ ContentReturned =>
           \A i \in 1..Len(content_result.errors) :
               LET e == content_result.errors[i]
               IN  e.kind = "missing_hours" =>
                       /\ e.span
                       /\ e # ErrMissing(e.hours, e.date)

\* in the middle of a scan: a timestamp seen at three rows, two dates
C29_Witness ==
    /\ pc = "scan"
    /\ row_idx <= Len(CurFile.data)
    /\ Len(hours_by_date) = 2
    /\ \E ts \in seen_timestamps : Len(timestamp_line_numbers[ts]) = 3

\* the blank rows of the data section
BlankRows(f) == {k \in 1..Len(f.data) : Len(f.data[k]) = 0}

\* C30: a blank row after the header is skipped by validate_file_content: it
\* yields no content error and is not tracked, but it consumes a row number,
\* so later rows keep their physical 1-based position; validate_file_structure
\* reports the same row as having insufficient columns; both checks number
\* the rows identically; a file that contains a blank row is never valid in
\* validate_all_files.
C30_BlankRow ==
    /\ (ContentReturned /\ CurFile.kind # "nohdr") =>
           LET errs == content_result.errors
               rt == RowTimestamps(CurFile)
           IN  /\ \A i \in 1..Len(errs) :
                      errs[i].kind \in RowKinds => errs[i].row - 1 \in NonBlankRows(CurFile)
               /\ \A k \in UnparsableRows(CurFile) : ErrDatetime(k + 1) \in Range(errs)
               /\ \A k \in BadPowerRows(CurFile, config.decimal_separator) :
                      ErrPower(k + 1) \in Range(errs)
               /\ \A ts \in DOMAIN timestamp_line_numbers :
                      Range(timestamp_line_numbers[ts])
                          = {k + 1 : k \in {j \in DOMAIN rt : rt[j] = ts}}
               /\ has_data_rows <=> NonBlankRows(CurFile) # {}
    /\ StructureReturned =>
           LET errs == structure_result.errors
           IN  /\ \A k \in BlankRows(CurFile) :
                      ErrRowShort(k + 1, Len(required_headers)) \in Range(errs)
               /\ \A i \in 1..Len(errs) :
                      errs[i].kind = "row_insufficient" =>
                          /\ errs[i].row - 1 \in 1..Len(CurFile.data)
                          /\ Len(CurFile.data[errs[i].row - 1]) < Len(required_headers)
    /\ \A k \in 1..Len(results) :
           BlankRows(files[k]) # {} => ~results[k].is_valid

\* a blank row and then a row whose date does not parse: the structure check
\* reports row 2, the content check reports row 3
C30_Witness ==
    /\ pc = "done"
    /\ Len(results) = 1
    /\ files[1].kind = "ok"
    /\ Len(files[1].data) = 2
    /\ files[1].data[1] = <<>>
    /\ results[1].errors =
           <<ErrRowShort(2, Len(required_headers)), ErrDatetime(3)>>

TibberNext ==
    \/ CallParseDateRange
    \/ CallGenerateParsed
    \/ CallGenerateMonthRange
    \/ GenerateLoop
    \/ GenerateReturn
    \/ CallEncodeDateToBase64
    \/ CallExtractOfEncoded
    \/ CallExtractYearMonth
    \/ CallCalculateFirstParameter
    \/ CallProcessDateRange
    \/ ProcessEncode
    \/ ProcessFetch
    \/ ProcessReturn

TibberSpec == TibberInit /\ [][TibberNext]_vars

\* process_date_range alone; it runs to its end, since a statement that can
\* be executed is executed
ProcessNext ==
    \/ CallProcessDateRange
    \/ ProcessEncode
    \/ ProcessFetch
    \/ ProcessReturn

ProcessSpec ==
    /\ TibberInit
    /\ [][ProcessNext]_vars
    /\ WF_vars(ProcessEncode)
    /\ WF_vars(ProcessFetch)
    /\ WF_vars(ProcessReturn)

====
